---- MODULE Spec2Model ----
(***************************************************************************)
(* Model of the greg SFlix native adapter (internal/providers/movies/sflix) *)
(* and of its multi-server resolution pipeline, of the provider registry    *)
(* (internal/registry), of the plugin adapter's locking and of the          *)
(* iteration of a plugin over the match set of a queryable document.        *)
(*                                                                          *)
(* Strings are modelled as sequences: a quality label is a sequence of      *)
(* one-character strings, an identifier is a sequence of tokens in which    *)
(* "/" and "|" are the separators the code splits on.                       *)
(***************************************************************************)
EXTENDS Integers, Sequences, FiniteSets, TLC

VARIABLES
    searchCache,   \* SFlix.searchCache : query -> []Media
    infoCache,     \* SFlix.infoCache   : id -> *MovieInfo
    pc,            \* position of the caller: "idle", "loop" (inside the server loop), "done"
    op,            \* the Provider method being executed
    episodeArg,    \* episodeID argument of the running stream call
    qualityArg,    \* quality argument of GetStreamURL
    servers,       \* local `servers` of FetchEpisodeSourcesWithMediaID
    discErr,       \* local `err` returned by server discovery
    idx,           \* position of the range loop over servers (next server to try)
    lastErr,       \* local `lastErr`
    requests,      \* upstream requests issued by the running call, in order
    outcomes,      \* what extractSourcesFromServer returned for each attempted server, in order
    pipeRet,       \* (value, error) returned by FetchEpisodeSourcesWithMediaID
    ret,           \* (value, error) returned by the finished Provider method
    site,          \* the content the upstream site serves at present
    history,       \* the finished metadata calls, in order: method, argument,
                   \* requests issued, whether one of them failed, pair returned
    cancelledAt,   \* the ctx passed to the running stream call: -1 while it is live,
                   \* else the number of servers attempted when it was cancelled
    calls,         \* concurrent callers of one adapter: position, method, key and
                   \* the value fetched
    stores,        \* the cache Store operations performed by concurrent callers, in order
    seasonsRet,    \* the GetSeasons call of a caller browsing a title: argument,
                   \* pair returned
    episodesRet,   \* the GetEpisodes calls of that caller: season id -> pair returned
    registry,      \* Registry.providers : name -> Provider
    loadStatus,    \* the last Registry.Load: "none", "completed" or "panicked"
    lastCfg,       \* the configuration the last Load was given
    lastDir,       \* what os.ReadDir of the plugin directory gave the last Load
    lock,          \* plugin adapters: the holder of each adapter's lock, or "free"
    plugCalls,     \* callers of plugin adapters: position, adapter, method, what
                   \* the invocation gave, pair returned
    luaState,      \* plugin adapters: the script state each adapter's interpreter holds
    eachRun        \* an each() call of a plugin on a queryable document: position,
                   \* document, selector, match set, loop index, callbacks invoked

vars == <<searchCache, infoCache, pc, op, episodeArg, qualityArg, servers, discErr,
          idx, lastErr, requests, outcomes, pipeRet, ret, site, history,
          cancelledAt, calls, stores, seasonsRet, episodesRet,
          registry, loadStatus, lastCfg, lastDir, lock, plugCalls, luaState, eachRun>>

cacheVars == <<searchCache, infoCache>>

streamVars == <<pc, op, episodeArg, qualityArg, servers, discErr, idx, lastErr,
                requests, outcomes, pipeRet, ret, cancelledAt>>

metaVars == <<site, history>>

raceVars == <<calls, stores>>

\* what the stream calls leave alone besides the caches, and what the metadata
\* calls leave alone
browseVars == <<seasonsRet, episodesRet>>

regVars == <<registry, loadStatus, lastCfg, lastDir>>

plugVars == <<lock, plugCalls, luaState>>

outsideStream == <<metaVars, raceVars, browseVars, regVars, plugVars, eachRun>>

outsideMeta == <<streamVars, raceVars, browseVars, regVars, plugVars, eachRun>>

----------------------------------------------------------------------------
(* Bounds *)

MaxServers == 3

\* metadata calls in one behaviour
MaxCalls == 2

----------------------------------------------------------------------------
(* Values *)

Nil == [nil |-> TRUE]

\* strings.Split(s, sep) for a one-token separator
RECURSIVE Split(_, _)
Split(s, sep) ==
    IF \A i \in 1..Len(s) : s[i] # sep
    THEN <<s>>
    ELSE LET i == CHOOSE k \in 1..Len(s) :
                      s[k] = sep /\ \A j \in 1..(k-1) : s[j] # sep
         IN  <<SubSeq(s, 1, i-1)>> \o Split(SubSeq(s, i+1, Len(s)), sep)

\* strings.Contains(s, tok)
Contains(s, tok) == \E i \in 1..Len(s) : s[i] = tok

\* unicode simple case folding of one character, as strings.EqualFold applies it
FoldChar(c) ==
    CASE c = "A" -> "a"
      [] c = "U" -> "u"
      [] c = "T" -> "t"
      [] c = "O" -> "o"
      [] c = "P" -> "p"
      [] OTHER   -> c

\* variant: labels are compared exactly
EqualExact(a, b) == a = b

\* strings.EqualFold(a, b)
EqualFold(a, b) ==
    /\ Len(a) = Len(b)
    /\ \A i \in 1..Len(a) : FoldChar(a[i]) = FoldChar(b[i])

----------------------------------------------------------------------------
(* Errors: a Go error is a root failure under a chain of wrapping messages   *)
(* (outermost first).  The root is tagged with the server it arose at (0:    *)
(* not at a server), so that two failures of the same kind at different      *)
(* servers stay distinct values, as two Go error values are.  Nil is the nil *)
(* error and the nil pointer.                                                *)

NoErr == Nil

Root(at, cause) == [msgs |-> <<>>, at |-> at, cause |-> cause]

\* fmt.Errorf("msg: %w", err)
Wrap(msg, err) == [err EXCEPT !.msgs = <<msg>> \o @]

----------------------------------------------------------------------------
(* Quality labels *)

Q1080p == <<"1", "0", "8", "0", "p">>
Q1080P == <<"1", "0", "8", "0", "P">>
Q720p  == <<"7", "2", "0", "p">>
Q480p  == <<"4", "8", "0", "p">>
Qauto  == <<"a", "u", "t", "o">>
QAUTO  == <<"A", "U", "T", "O">>

\* providers.QualityAuto, the distinguished auto value of the Quality enum
QualityAuto == Qauto

\* labels an extractor may put on a Source
SourceLabels == {Q1080p, Q720p, Q480p, Qauto, QAUTO}

\* qualities a caller may request
RequestedQualities == {Q1080P, Q1080p, QualityAuto}

\* label lists of the VideoSources an extractor may answer with (<<>>: clean but empty)
LabelLists ==
    {<<>>} \cup {<<a>> : a \in SourceLabels}
           \cup {<<a, b>> : a \in SourceLabels, b \in SourceLabels}

----------------------------------------------------------------------------
(* Identifiers *)

\* episode ids as GetEpisodes emits them: "id" or "id|mediaID"
EpisodeIDs ==
    { <<"e1">>,
      <<"e1", "|", "movie", "/", "a">>,
      <<"e1", "|", "tv", "/", "a">> }

----------------------------------------------------------------------------
(* types.VideoSources *)

EmptyVideoSources == [Sources |-> <<>>, Subtitles |-> <<>>]

\* the VideoSources an extractor produces for server `srv` with the given labels
MkVideoSources(srv, labels) ==
    [Sources   |-> [i \in 1..Len(labels) |->
                        [URL      |-> <<srv, i>>,
                         Quality  |-> labels[i],
                         IsM3U8   |-> (i = 1),
                         Referer  |-> <<"embed", srv>>]],
     Subtitles |-> IF Len(labels) > 0
                   THEN <<[URL |-> <<"sub", srv>>, Lang |-> "en"],
                          [URL |-> <<"sub2", srv>>, Lang |-> "fr"]>>
                   ELSE <<>>]

\* an extractor answer with subtitles and no source
SubtitlesOnly(srv) ==
    [Sources |-> <<>>, Subtitles |-> <<[URL |-> <<"sub", srv>>, Lang |-> "en"]>>]

ExtractFail == [fail |-> TRUE]

\* what the upstream may answer to one attempt on server `srv`: the reply to the
\* embed-link request, and the extractor's answer for the embed URL
Replies(srv) ==
    {[embed |-> e, extracted |-> Nil] : e \in {"transport_fail", "bad_json", "no_link"}}
    \cup {[embed |-> "link", extracted |-> ExtractFail]}
    \cup {[embed |-> "link", extracted |-> MkVideoSources(srv, l)] : l \in LabelLists}
    \cup {[embed |-> "link", extracted |-> SubtitlesOnly(srv)]}

\* what the upstream may answer to the server-list request: a transport failure,
\* or a page (which lists some number of servers)
ServerListReplies == {"transport_fail", "page"}

----------------------------------------------------------------------------
(* SFlix.FetchEpisodeServersWithMediaID and SFlix.GetSources *)

\* variant: the id is taken whole
ParseEpisodeIDWhole(episodeID) == [episodeID |-> episodeID, mediaID |-> <<>>]

\* the split of "id|mediaID" done by GetSources and GetServers
ParseEpisodeID(episodeID) ==
    LET parts == Split(episodeID, "|")
    IN  IF Len(parts) = 2
        THEN [episodeID |-> parts[1], mediaID |-> parts[2]]
        ELSE [episodeID |-> episodeID, mediaID |-> <<>>]

\* the endpoint FetchEpisodeServersWithMediaID requests
ServersEndpoint(episodeID, mediaID) ==
    IF Contains(mediaID, "movie")
    THEN [path |-> "/ajax/episode/list", id |-> episodeID]
    ELSE [path |-> "/ajax/episode/servers", id |-> episodeID]

\* the servers parsed from a page that lists n of them; URL holds the data-id
ParseServers(n) == [k \in 1..n |-> [Name |-> "upcloud", URL |-> k]]

\* FetchEpisodeServersWithMediaID: (servers, err)
FetchEpisodeServersWithMediaID(reply, n) ==
    IF reply = "transport_fail"
    THEN [val |-> Nil, err |-> Wrap("failed to fetch servers", Root(0, "transport"))]
    ELSE [val |-> ParseServers(n), err |-> NoErr]

----------------------------------------------------------------------------
(* SFlix.extractSourcesFromServer, returning the pair (VideoSources, err) *)

extractSourcesFromServer(server, reply) ==
    CASE reply.embed = "transport_fail" ->
            [val |-> Nil,
             err |-> Wrap("failed to fetch embed URL", Root(server.URL, "transport"))]
      [] reply.embed = "bad_json" ->
            [val |-> Nil,
             err |-> Wrap("failed to parse sources JSON", Root(server.URL, "json"))]
      [] reply.embed = "no_link" ->
            [val |-> Nil,
             err |-> Root(server.URL, "no embed link found in response")]
      [] OTHER ->
            IF reply.extracted = ExtractFail
            THEN [val |-> Nil,
                  err |-> Wrap("failed to extract from embed URL",
                               Root(server.URL, "extractor"))]
            ELSE [val |-> reply.extracted, err |-> NoErr]

----------------------------------------------------------------------------
(* SFlix.FetchEpisodeSourcesWithMediaID: the loop over the servers *)

\* variant: an empty server list is reported as an error
BeforeLoopErrOnNone(d) ==
    IF d.err # NoErr
    THEN [val |-> Nil, err |-> Wrap("failed to fetch servers", d.err)]
    ELSE [val |-> Nil, err |-> Root(0, "no servers found")]

\* the returns that precede the loop: discovery failed, or listed no server
BeforeLoop(d) ==
    IF d.err # NoErr
    THEN [val |-> Nil, err |-> Wrap("failed to fetch servers", d.err)]
    ELSE [val |-> EmptyVideoSources, err |-> NoErr]

\* variant: a non-empty result does not end the loop
LoopBodyNoEarlyReturn(le, r) ==
    IF r.err # NoErr
    THEN [lastErr |-> r.err, returns |-> FALSE, val |-> Nil]
    ELSE [lastErr |-> le, returns |-> FALSE, val |-> Nil]

\* variant: only the first failure is kept
LoopBodyFirstErr(le, r) ==
    IF r.err # NoErr
    THEN [lastErr |-> IF le = NoErr THEN r.err ELSE le, returns |-> FALSE, val |-> Nil]
    ELSE IF Len(r.val.Sources) > 0
         THEN [lastErr |-> le, returns |-> TRUE, val |-> r.val]
         ELSE [lastErr |-> le, returns |-> FALSE, val |-> Nil]

\* variant: a clean but empty result forgets the earlier failure
LoopBodyClearErr(le, r) ==
    IF r.err # NoErr
    THEN [lastErr |-> r.err, returns |-> FALSE, val |-> Nil]
    ELSE IF Len(r.val.Sources) > 0
         THEN [lastErr |-> le, returns |-> TRUE, val |-> r.val]
         ELSE [lastErr |-> NoErr, returns |-> FALSE, val |-> Nil]

\* one iteration of the range loop, given what extractSourcesFromServer returned:
\* the new lastErr, and whether the function returns from inside the loop
LoopBody(le, r) ==
    IF r.err # NoErr
    THEN [lastErr |-> r.err, returns |-> FALSE, val |-> Nil]
    ELSE IF Len(r.val.Sources) > 0
         THEN [lastErr |-> le, returns |-> TRUE, val |-> r.val]
         ELSE [lastErr |-> le, returns |-> FALSE, val |-> Nil]

\* variant: exhaustion without a failure is reported as an error
AfterLoopErrOnEmpty(le) ==
    IF le # NoErr
    THEN [val |-> Nil,
          err |-> Wrap("failed to extract sources from all servers", le)]
    ELSE [val |-> Nil, err |-> Root(0, "no sources found")]

\* the statements after the loop
AfterLoop(le) ==
    IF le # NoErr
    THEN [val |-> Nil,
          err |-> Wrap("failed to extract sources from all servers", le)]
    ELSE [val |-> EmptyVideoSources, err |-> NoErr]

----------------------------------------------------------------------------
(* SFlix.GetStreamURL and SFlix.GetAvailableQualities, applied to what        *)
(* GetSources returned                                                        *)

\* variant: the auto request is aimed at the highest resolution label
TargetQualityBest(quality) ==
    IF quality = QualityAuto THEN Q1080p ELSE quality

TargetQuality(quality) ==
    IF quality = QualityAuto THEN Qauto ELSE quality

\* variant: without a match the last source is taken
SelectSourceLastFallback(sources, target) ==
    IF \E i \in 1..Len(sources) : EqualFold(sources[i].Quality, target)
    THEN CHOOSE i \in 1..Len(sources) :
            /\ EqualFold(sources[i].Quality, target)
            /\ \A j \in 1..(i-1) : ~EqualFold(sources[j].Quality, target)
    ELSE Len(sources)

\* index of the selected source: the first whose label folds to the target,
\* else the first of the list
SelectSource(sources, target) ==
    IF \E i \in 1..Len(sources) : EqualFold(sources[i].Quality, target)
    THEN CHOOSE i \in 1..Len(sources) :
            /\ EqualFold(sources[i].Quality, target)
            /\ \A j \in 1..(i-1) : ~EqualFold(sources[j].Quality, target)
    ELSE 1

\* variant: every stream is announced as HLS
StreamTypeAlwaysHLS(src) == "hls"

StreamTypeOf(src) == IF src.IsM3U8 THEN "hls" ELSE "mp4"

GetStreamURL(res, quality) ==
    IF res.err # NoErr
    THEN [val |-> Nil, err |-> res.err]
    ELSE IF Len(res.val.Sources) = 0
    THEN [val |-> Nil, err |-> Root(0, "no sources found")]
    ELSE LET src == res.val.Sources[SelectSource(res.val.Sources, TargetQuality(quality))]
         IN  [val |-> [URL       |-> src.URL,
                       Quality   |-> src.Quality,
                       Type      |-> StreamTypeOf(src),
                       Referer   |-> src.Referer,
                       Headers   |-> [Referer |-> src.Referer],
                       Subtitles |-> [i \in 1..Len(res.val.Subtitles) |->
                                        [Language |-> res.val.Subtitles[i].Lang,
                                         URL      |-> res.val.Subtitles[i].URL]]],
              err |-> NoErr]

GetAvailableQualities(res) ==
    IF res.err # NoErr
    THEN [val |-> Nil, err |-> res.err]
    ELSE [val |-> [i \in 1..Len(res.val.Sources) |-> res.val.Sources[i].Quality],
          err |-> NoErr]

\* what the Provider method `o` returns, given what GetSources returned
MethodReturn(o, res, quality) ==
    CASE o = "GetStreamURL"          -> GetStreamURL(res, quality)
      [] o = "GetAvailableQualities" -> GetAvailableQualities(res)
      [] OTHER                       -> res

StreamMethods == {"GetSources", "GetStreamURL", "GetAvailableQualities"}

----------------------------------------------------------------------------
(* State machine of one adapter and one caller issuing stream calls *)

EmptyMap == [k \in {} |-> Nil]

\* goroutines that call methods of one adapter concurrently
Callers == {"c1", "c2"}

\* plugin adapter instances, and the goroutines that call their methods
Adapters == {"A1", "A2"}

PluginCallers == {"g1", "g2", "g3"}

\* a goroutine that is in no plugin adapter call
NoPluginCall ==
    [pc |-> "idle", adapter |-> "none", method |-> "none", outcome |-> "none", ret |-> Nil]

\* the script each adapter loaded: the functions it defines and the name its
\* get_name returns
Scripts ==
    [a \in Adapters |->
        IF a = "A1" THEN [defines |-> {"get_name"}, name |-> "Test"]
        ELSE [defines |-> {"get_name", "search"}, name |-> "Example"]]

\* no each() call has been made
NoEach == [pc |-> "idle", doc |-> <<>>, sel |-> "none", matched |-> <<>>, i |-> 0,
           invoked |-> <<>>]

\* a caller that has not called yet
NotCalling == [pc |-> "idle", method |-> "none", key |-> <<>>, val |-> Nil, err |-> NoErr]

Init ==
    /\ searchCache = EmptyMap
    /\ infoCache = EmptyMap
    /\ pc = "idle"
    /\ op = "none"
    /\ episodeArg = <<>>
    /\ qualityArg = QualityAuto
    /\ servers = <<>>
    /\ discErr = NoErr
    /\ idx = 0
    /\ lastErr = NoErr
    /\ requests = <<>>
    /\ outcomes = <<>>
    /\ pipeRet = Nil
    /\ ret = Nil
    /\ site = "t1"
    /\ history = <<>>
    /\ cancelledAt = -1
    /\ calls = [c \in Callers |-> NotCalling]
    /\ stores = <<>>
    /\ seasonsRet = Nil
    /\ episodesRet = EmptyMap
    /\ registry = EmptyMap
    /\ loadStatus = "none"
    /\ lastCfg = Nil
    /\ lastDir = Nil
    /\ lock = [a \in Adapters |-> "free"]
    /\ plugCalls = [g \in PluginCallers |-> NoPluginCall]
    /\ luaState = Scripts
    /\ eachRun = NoEach

\* variant: the loop stays on the server it has just tried
NextServerSame(i) == i

\* the range loop over servers moves on to the next element
NextServer(i) == i + 1

\* the quality arguments method `o` can be called with (only GetStreamURL has one)
QualityArgs(o) == IF o = "GetStreamURL" THEN RequestedQualities ELSE {QualityAuto}

\* the page sizes a server-list reply can have (a failed request has no page)
ListedCounts(reply) == IF reply = "page" THEN 0..MaxServers ELSE {0}

\* A caller invokes GetSources, GetStreamURL or GetAvailableQualities: the id is
\* split, the server list is requested, and the call either returns (discovery
\* failed, or no server is listed) or enters the loop over the servers.
CallStream(o, ep, q, reply, n) ==
    /\ pc = "idle"
    /\ LET p == ParseEpisodeID(ep)
           d == FetchEpisodeServersWithMediaID(reply, n)
           discovered == d.err = NoErr /\ Len(d.val) > 0
           r == BeforeLoop(d)
       IN  /\ op' = o
           /\ episodeArg' = ep
           /\ qualityArg' = q
           /\ requests' = <<ServersEndpoint(p.episodeID, p.mediaID)>>
           /\ outcomes' = <<>>
           /\ lastErr' = NoErr
           /\ servers' = IF discovered THEN d.val ELSE <<>>
           /\ discErr' = d.err
           /\ idx' = IF discovered THEN 1 ELSE 0
           /\ pc' = IF discovered THEN "loop" ELSE "done"
           /\ pipeRet' = IF discovered THEN Nil ELSE r
           /\ ret' = IF discovered THEN Nil ELSE MethodReturn(o, r, q)
    /\ cancelledAt' = -1
    /\ UNCHANGED cacheVars
    /\ UNCHANGED outsideStream

\* variant: the result the call ends with is kept in the adapter, under the
\* episode id
AttemptServerCaching(reply) ==
    /\ pc = "loop"
    /\ LET server == servers[idx]
           r == extractSourcesFromServer(server, reply)
           b == LoopBody(lastErr, r)
           last == idx = Len(servers)
           final == IF b.returns THEN [val |-> b.val, err |-> NoErr]
                    ELSE AfterLoop(b.lastErr)
       IN  /\ requests' = Append(requests,
                                 [path |-> "/ajax/episode/sources", id |-> server.URL])
           /\ outcomes' = Append(outcomes, r)
           /\ lastErr' = b.lastErr
           /\ IF b.returns \/ last
              THEN /\ pc' = "done"
                   /\ idx' = idx
                   /\ pipeRet' = final
                   /\ ret' = MethodReturn(op, final, qualityArg)
                   /\ infoCache' = IF final.err = NoErr
                                   THEN (episodeArg :> final.val) @@ infoCache
                                   ELSE infoCache
              ELSE /\ pc' = "loop"
                   /\ idx' = NextServer(idx)
                   /\ UNCHANGED <<pipeRet, ret, infoCache>>
    /\ UNCHANGED <<op, episodeArg, qualityArg, servers, discErr, searchCache, cancelledAt>>
    /\ UNCHANGED outsideStream

\* One iteration of the loop: the embed link of servers[idx] is requested and its
\* extractor run; the call returns with the first non-empty result, goes on to the
\* next server, or (after the last one) returns what follows the loop.
AttemptServer(reply) ==
    /\ pc = "loop"
    /\ LET server == servers[idx]
           r == extractSourcesFromServer(server, reply)
           b == LoopBody(lastErr, r)
           last == idx = Len(servers)
           final == IF b.returns THEN [val |-> b.val, err |-> NoErr]
                    ELSE AfterLoop(b.lastErr)
       IN  /\ requests' = Append(requests,
                                 [path |-> "/ajax/episode/sources", id |-> server.URL])
           /\ outcomes' = Append(outcomes, r)
           /\ lastErr' = b.lastErr
           /\ IF b.returns \/ last
              THEN /\ pc' = "done"
                   /\ idx' = idx
                   /\ pipeRet' = final
                   /\ ret' = MethodReturn(op, final, qualityArg)
              ELSE /\ pc' = "loop"
                   /\ idx' = NextServer(idx)
                   /\ UNCHANGED <<pipeRet, ret>>
    /\ UNCHANGED <<op, episodeArg, qualityArg, servers, discErr, cancelledAt>>
    /\ UNCHANGED cacheVars
    /\ UNCHANGED outsideStream

\* The caller takes the returned pair; the call's locals go out of scope.
Return ==
    /\ pc = "done"
    /\ pc' = "idle"
    /\ op' = "none"
    /\ episodeArg' = <<>>
    /\ qualityArg' = QualityAuto
    /\ servers' = <<>>
    /\ discErr' = NoErr
    /\ idx' = 0
    /\ lastErr' = NoErr
    /\ requests' = <<>>
    /\ outcomes' = <<>>
    /\ pipeRet' = Nil
    /\ ret' = Nil
    /\ cancelledAt' = -1
    /\ UNCHANGED cacheVars
    /\ UNCHANGED outsideStream

Next ==
    \/ \E o \in StreamMethods, ep \in EpisodeIDs, reply \in ServerListReplies :
          \E q \in QualityArgs(o), n \in ListedCounts(reply) :
             CallStream(o, ep, q, reply, n)
    \/ \E reply \in Replies(IF pc = "loop" THEN servers[idx].URL ELSE 0) :
          AttemptServer(reply)
    \/ Return

Spec == Init /\ [][Next]_vars

\* The caller of GetStreamURL cancels the ctx it passed, while the call is
\* between two server attempts.  GetStreamURL hands ctx to nothing: GetSources,
\* the loop and the extractor take no context, so no step of the call reads it.
CancelContext ==
    /\ pc = "loop"
    /\ op = "GetStreamURL"
    /\ cancelledAt = -1
    /\ cancelledAt' = Len(outcomes)
    /\ UNCHANGED <<op, episodeArg, qualityArg, servers, discErr, idx, lastErr,
                   requests, outcomes, pipeRet, ret, pc>>
    /\ UNCHANGED cacheVars
    /\ UNCHANGED outsideStream

NextCancel ==
    \/ Next
    \/ CancelContext

SpecCancel == Init /\ [][NextCancel]_vars

----------------------------------------------------------------------------
(* Properties of the resolution pipeline.  They read the finished call       *)
(* (pc = "done"): the servers discovered, what each attempted server         *)
(* answered (outcomes), the requests issued, and the pair returned.          *)

Failed(r) == r.err # NoErr

Yields(r) == r.err = NoErr /\ Len(r.val.Sources) > 0

CleanEmpty(r) == r.err = NoErr /\ Len(r.val.Sources) = 0

PipelineDone == pc = "done" /\ discErr = NoErr /\ Len(servers) > 0

\* the embed-link requests of the call, i.e. the servers attempted, in order
Attempted == [i \in 1..(Len(requests) - 1) |-> requests[i + 1].id]

\* C1: if servers 1..K each end in an extractor error and server K+1 yields at
\* least one Source (0 <= K < N), the pipeline returns exactly server K+1's
\* VideoSources with no error and servers K+2..N are never attempted; the K
\* errors do not abort the pipeline before server K+1.
C1_FirstSuccessWins ==
    PipelineDone =>
        \A K \in 0..(Len(servers) - 1) :
            (/\ Len(outcomes) >= K
             /\ \A i \in 1..K : Failed(outcomes[i]))
            => /\ Len(outcomes) >= K + 1
               /\ Attempted[K + 1] = servers[K + 1].URL
               /\ Yields(outcomes[K + 1]) =>
                     /\ pipeRet = [val |-> outcomes[K + 1].val, err |-> NoErr]
                     /\ Len(outcomes) = K + 1
                     /\ Len(Attempted) = K + 1

C1_Witness ==
    /\ PipelineDone
    /\ Len(servers) = 3
    /\ Len(outcomes) = 2
    /\ Failed(outcomes[1])
    /\ Yields(outcomes[2])
    /\ pipeRet.val = outcomes[2].val
    /\ pipeRet.val.Sources[1].URL = <<2, 1>>

\* C2: if every server's extraction fails, the pipeline returns no VideoSources
\* and an error wrapping the failure of the last server of the list, which is
\* the last one attempted.
C2_AllFailLastError ==
    (PipelineDone /\ \A i \in 1..Len(outcomes) : Failed(outcomes[i]))
    => /\ Len(outcomes) = Len(servers)
       /\ pipeRet.val = Nil
       /\ pipeRet.err = Wrap("failed to extract sources from all servers",
                             outcomes[Len(servers)].err)
       /\ pipeRet.err.at = servers[Len(servers)].URL

C2_Witness ==
    /\ PipelineDone
    /\ Len(servers) = 3
    /\ Len(outcomes) = 3
    /\ \A i \in 1..3 : Failed(outcomes[i])
    /\ outcomes[1].err.cause = "transport"
    /\ outcomes[3].err.cause = "extractor"
    /\ pipeRet.err.at = 3
    /\ pipeRet.err.cause = "extractor"

\* C3: if every server's extraction succeeds with zero Sources, the pipeline
\* returns an empty VideoSources (no source, no subtitle) and a nil error.
C3_AllEmptyNoError ==
    (PipelineDone /\ \A i \in 1..Len(outcomes) : CleanEmpty(outcomes[i]))
    => /\ Len(outcomes) = Len(servers)
       /\ pipeRet.err = NoErr
       /\ pipeRet.val.Sources = <<>>
       /\ pipeRet.val.Subtitles = <<>>

C3_Witness ==
    /\ PipelineDone
    /\ Len(servers) = 2
    /\ Len(outcomes) = 2
    /\ \A i \in 1..2 : CleanEmpty(outcomes[i])
    /\ outcomes[2].val.Subtitles # <<>>
    /\ pipeRet = [val |-> EmptyVideoSources, err |-> NoErr]

\* the attempts of the call that failed
FailedAttempts == {i \in 1..Len(outcomes) : Failed(outcomes[i])}

MaxOf(S) == CHOOSE i \in S : \A j \in S : j <= i

\* C4: when the servers are exhausted without any Source, the pipeline returns an
\* error wrapping the most recent failure if at least one attempt failed (also
\* when later attempts were clean but empty), and the empty VideoSources with no
\* error only when no attempt failed.
C4_MostRecentFailure ==
    (PipelineDone /\ \A i \in 1..Len(outcomes) : ~Yields(outcomes[i]))
    => /\ Len(outcomes) = Len(servers)
       /\ IF FailedAttempts # {}
          THEN /\ pipeRet.val = Nil
               /\ pipeRet.err = Wrap("failed to extract sources from all servers",
                                     outcomes[MaxOf(FailedAttempts)].err)
          ELSE pipeRet = [val |-> EmptyVideoSources, err |-> NoErr]

C4_Witness ==
    /\ PipelineDone
    /\ Len(servers) = 3
    /\ Len(outcomes) = 3
    /\ Failed(outcomes[1])
    /\ Failed(outcomes[2])
    /\ CleanEmpty(outcomes[3])
    /\ pipeRet.val = Nil
    /\ pipeRet.err.at = 2

\* C5: when server discovery succeeds with zero servers, the pipeline returns an
\* empty VideoSources with a nil error and invokes no extractor.
C5_NoServersEmpty ==
    (pc = "done" /\ discErr = NoErr /\ Len(servers) = 0)
    => /\ pipeRet = [val |-> EmptyVideoSources, err |-> NoErr]
       /\ outcomes = <<>>
       /\ Len(requests) = 1
       /\ requests[1].path # "/ajax/episode/sources"

C5_Witness ==
    /\ pc = "done"
    /\ discErr = NoErr
    /\ Len(servers) = 0
    /\ pipeRet.err = NoErr
    /\ pipeRet.val.Sources = <<>>
    /\ outcomes = <<>>

----------------------------------------------------------------------------
(* Properties of GetStreamURL's quality selection.  They read a finished      *)
(* GetStreamURL call whose pipeline returned at least one Source.             *)

\* the two letter cases of the letters that occur in quality labels
LetterPairs ==
    {<<"a", "A">>, <<"u", "U">>, <<"t", "T">>, <<"o", "O">>, <<"p", "P">>}

SameLetter(c, d) ==
    \/ c = d
    \/ \E pr \in LetterPairs : {c, d} = {pr[1], pr[2]}

\* a and b are equal ignoring letter case
SameIgnoringCase(a, b) ==
    /\ Len(a) = Len(b)
    /\ \A i \in 1..Len(a) : SameLetter(a[i], b[i])

StreamDone ==
    /\ pc = "done"
    /\ op = "GetStreamURL"
    /\ pipeRet.err = NoErr
    /\ Len(pipeRet.val.Sources) > 0

\* the sources whose label equals q ignoring case
Matching(q) ==
    {i \in 1..Len(pipeRet.val.Sources) :
        SameIgnoringCase(pipeRet.val.Sources[i].Quality, q)}

MinOf(S) == CHOOSE i \in S : \A j \in S : i <= j

\* the StreamURL returned is made from source i of the pipeline's result
ReturnsSource(i) ==
    /\ ret.err = NoErr
    /\ ret.val.URL = pipeRet.val.Sources[i].URL
    /\ ret.val.Quality = pipeRet.val.Sources[i].Quality
    /\ ret.val.Referer = pipeRet.val.Sources[i].Referer

\* C6: given a non-empty source list, GetStreamURL returns the first source in
\* list order whose quality label equals the requested quality ignoring letter
\* case.
C6_CaseInsensitiveMatch ==
    (StreamDone /\ Matching(qualityArg) # {})
    => ReturnsSource(MinOf(Matching(qualityArg)))

C6_Witness ==
    /\ StreamDone
    /\ qualityArg = Q1080P
    /\ Len(pipeRet.val.Sources) = 2
    /\ pipeRet.val.Sources[1].Quality = Q720p
    /\ pipeRet.val.Sources[2].Quality = Q1080p
    /\ ret.val.Quality = Q1080p
    /\ ret.val.URL = pipeRet.val.Sources[2].URL

\* C7: given a non-empty source list in which no label matches the requested
\* quality ignoring case, GetStreamURL returns the first source of the list and
\* no error.
C7_FallbackToFirst ==
    (StreamDone /\ Matching(qualityArg) = {})
    => ReturnsSource(1)

C7_Witness ==
    /\ StreamDone
    /\ qualityArg = Q1080p
    /\ Len(pipeRet.val.Sources) = 2
    /\ pipeRet.val.Sources[1].Quality = Q720p
    /\ pipeRet.val.Sources[2].Quality = Q480p
    /\ ret.err = NoErr
    /\ ret.val.Quality = Q720p
    /\ ret.val.URL = pipeRet.val.Sources[1].URL

\* the sources labelled literally "auto"
LiteralAuto ==
    {i \in 1..Len(pipeRet.val.Sources) : pipeRet.val.Sources[i].Quality = Qauto}

\* C8 as stated: when the auto sentinel is requested, a source labelled literally
\* auto is selected if the list contains one, and the first source of the list
\* is the fallback only when no source is labelled auto.
C8_Stated ==
    (StreamDone /\ qualityArg = QualityAuto /\ LiteralAuto # {})
    => /\ ret.err = NoErr
       /\ ret.val.Quality = Qauto

\* C8 as amended: when the auto sentinel is requested, GetStreamURL selects the
\* first source whose label equals "auto" ignoring letter case (a source labelled
\* AUTO counts, and wins over a later one labelled auto), and falls back to the
\* first source of the list only when no label equals auto ignoring case.
C8_AutoIgnoringCase ==
    (StreamDone /\ qualityArg = QualityAuto)
    => IF Matching(Qauto) # {}
       THEN ReturnsSource(MinOf(Matching(Qauto)))
       ELSE ReturnsSource(1)

C8_Witness ==
    /\ StreamDone
    /\ qualityArg = QualityAuto
    /\ Len(pipeRet.val.Sources) = 2
    /\ pipeRet.val.Sources[1].Quality = QAUTO
    /\ pipeRet.val.Sources[2].Quality = Qauto
    /\ ret.val.Quality = QAUTO
    /\ ret.val.URL = pipeRet.val.Sources[1].URL

----------------------------------------------------------------------------
(* Stream data and the adapter's state *)

\* a cached value that is, or holds, stream data: a VideoSources (Sources), a
\* StreamURL or Source (URL, Quality)
HoldsStreamData(v) ==
    \/ "Sources" \in DOMAIN v
    \/ "Quality" \in DOMAIN v
    \/ "IsM3U8" \in DOMAIN v

FirstOf(S) == CHOOSE i \in S : \A j \in S : i <= j

\* what the pipeline is to return for the answers `outs` of the servers it tried
Resolved(outs) ==
    LET yielding == {i \in 1..Len(outs) : Yields(outs[i])}
        failing  == {i \in 1..Len(outs) : Failed(outs[i])}
    IN  IF yielding # {}
        THEN [val |-> outs[FirstOf(yielding)].val, err |-> NoErr]
        ELSE IF failing # {}
        THEN [val |-> Nil,
              err |-> Wrap("failed to extract sources from all servers",
                           outs[MaxOf(failing)].err)]
        ELSE [val |-> EmptyVideoSources, err |-> NoErr]

\* C9: stream URLs are never cached: no entry of the adapter's caches holds a
\* Source, VideoSources or StreamURL; every GetSources, GetStreamURL or
\* GetAvailableQualities call issues its own server-list request for its episode
\* id and one embed request per server it tried, and what it returns is decided
\* by the answers the upstream gave during that call.
C9_NoStreamCaching ==
    /\ \A k \in DOMAIN searchCache : ~HoldsStreamData(searchCache[k])
    /\ \A k \in DOMAIN infoCache : ~HoldsStreamData(infoCache[k])
    /\ pc = "done" =>
          /\ Len(requests) = Len(outcomes) + 1
          /\ requests[1].id = ParseEpisodeID(episodeArg).episodeID
          /\ requests[1].path \in {"/ajax/episode/list", "/ajax/episode/servers"}
          /\ \A i \in 1..Len(outcomes) :
                requests[i + 1] = [path |-> "/ajax/episode/sources", id |-> servers[i].URL]
          /\ discErr = NoErr => pipeRet = Resolved(outcomes)
          /\ ret = MethodReturn(op, pipeRet, qualityArg)

C9_Witness ==
    /\ pc = "done"
    /\ op = "GetStreamURL"
    /\ episodeArg = <<"e1", "|", "tv", "/", "a">>
    /\ Len(servers) = 2
    /\ Len(requests) = 3
    /\ Failed(outcomes[1])
    /\ Yields(outcomes[2])
    /\ ret.val.URL = <<2, 1>>
    /\ infoCache = EmptyMap
    /\ searchCache = EmptyMap

----------------------------------------------------------------------------
(* SFlix.GetInfo, SFlix.fetchEpisodeList and SFlix.GetMediaDetails            *)

\* strings.HasPrefix(s, p)
HasPrefix(s, p) == Len(s) >= Len(p) /\ SubSeq(s, 1, Len(p)) = p

\* media ids a caller may pass: with the movie/ or tv/ prefix Search gives them,
\* or bare
MediaIDs == { <<"movie", "/", "a">>, <<"tv", "/", "a">>, <<"a">> }

\* the contents the upstream site may serve over time
Titles == {"t1", "t2"}

\* http.StatusOK
StatusOK == 200

\* replies to a page request: the request fails (status 0 stands for err != nil),
\* an error page, or the media page with the content the site serves at present,
\* with or without a data-id
TransportFail == [status |-> 0, title |-> "", dataID |-> ""]

PageReplies(content) ==
    { TransportFail,
      [status |-> 404, title |-> "", dataID |-> ""],
      [status |-> StatusOK, title |-> content, dataID |-> ""],
      [status |-> StatusOK, title |-> content, dataID |-> "d1"] }

\* data-ids of the episodes of a season page, by season number and position
EpisodeDataID(season, j) ==
    IF season \in 0..2
    THEN << <<"e01", "e02">>, <<"e11", "e12">>, <<"e21", "e22">> >>[season + 1][j]
    ELSE <<"e91", "e92">>[j]

\* replies to the season-list request of fetchEpisodeList: the request fails, or
\* a page of season items, each with the number its text gives and the number of
\* episodes its episode page lists (-1: that page's request fails)
SeasonListReplies ==
    { [fail |-> TRUE,  seasons |-> <<>>],
      [fail |-> FALSE, seasons |-> <<>>],
      [fail |-> FALSE, seasons |-> <<[number |-> 1, episodes |-> 2]>>],
      [fail |-> FALSE, seasons |-> <<[number |-> 2, episodes |-> 1],
                                     [number |-> 1, episodes |-> -1]>>] }

\* the episodes one season item contributes
SeasonEpisodes(item) ==
    IF item.episodes < 0
    THEN <<>>
    ELSE [j \in 1..item.episodes |->
             [ID     |-> <<EpisodeDataID(item.number, j)>>,
              Number |-> j,
              Season |-> item.number,
              Title  |-> "",
              URL    |-> <<>>]]

RECURSIVE AllEpisodes(_)
AllEpisodes(seasons) ==
    IF seasons = <<>> THEN <<>>
    ELSE SeasonEpisodes(Head(seasons)) \o AllEpisodes(Tail(seasons))

\* fetchEpisodeList: (episodes, err) and the requests issued
fetchEpisodeList(showID, reply) ==
    IF reply.fail
    THEN [val  |-> <<>>,
          err  |-> Wrap("failed to fetch season list", Root(0, "transport")),
          reqs |-> << <<"ajax", "season", "list", showID>> >>]
    ELSE [val  |-> AllEpisodes(reply.seasons),
          err  |-> NoErr,
          reqs |-> << <<"ajax", "season", "list", showID>> >>
                   \o [i \in 1..Len(reply.seasons) |->
                          <<"ajax", "season", "episodes", reply.seasons[i].number>>]]

\* the loop that computes LastSeason and TotalEpisodesLastSeason
RECURSIVE LastSeasonCount(_, _, _)
LastSeasonCount(episodes, lastSeason, count) ==
    IF episodes = <<>>
    THEN [LastSeason |-> lastSeason, Total |-> count]
    ELSE LET ep == Head(episodes)
         IN  IF ep.Season > lastSeason
             THEN LastSeasonCount(Tail(episodes), ep.Season, 1)
             ELSE IF ep.Season = lastSeason
                  THEN LastSeasonCount(Tail(episodes), lastSeason, count + 1)
                  ELSE LastSeasonCount(Tail(episodes), lastSeason, count)

\* the MovieInfo GetInfo builds from the parsed page
BuildInfo(id, mediaType, infoURL, page, seasonReply) ==
    LET cleanMediaID == IF Contains(id, "/") THEN id ELSE <<mediaType, "/">> \o id
        base == [ID |-> cleanMediaID, URL |-> infoURL, Type |-> mediaType,
                 Title |-> page.title, Episodes |-> <<>>,
                 LastSeason |-> 0, TotalEpisodesLastSeason |-> 0]
        fetched == fetchEpisodeList(page.dataID, seasonReply)
        withURL == [i \in 1..Len(fetched.val) |->
                       [fetched.val[i] EXCEPT !.URL = cleanMediaID]]
        counted == LastSeasonCount(withURL, 0, 0)
    IN  IF mediaType = "movie" /\ page.dataID # ""
        THEN [info |-> [base EXCEPT !.Episodes =
                           <<[ID |-> <<page.dataID>>, Number |-> 1, Season |-> 0,
                              Title |-> page.title, URL |-> cleanMediaID]>>],
              reqs |-> <<>>]
        ELSE IF mediaType = "tv" /\ page.dataID # ""
        THEN [info |-> IF fetched.err = NoErr /\ Len(fetched.val) > 0
                       THEN [base EXCEPT !.Episodes = withURL,
                                         !.LastSeason = counted.LastSeason,
                                         !.TotalEpisodesLastSeason = counted.Total]
                       ELSE base,
              reqs |-> fetched.reqs]
        ELSE [info |-> base, reqs |-> <<>>]

\* variant: the info built is returned without being stored
StoreInfoNever(cache, id, info) == cache

\* variant: LoadOrStore, the entry of the first writer is kept
StoreInfoIfAbsent(cache, id, info) == cache @@ (id :> info)

\* s.infoCache.Store(id, info)
StoreInfo(cache, id, info) == (id :> info) @@ cache

\* GetInfo on an adapter whose infoCache is `cache`: the pair returned, the
\* infoCache afterwards and the requests issued.  r1 and r2 are the upstream's
\* replies to the first page request and to the second (the /tv/ retry), and
\* seasonReply its reply to the season-list request.
GetInfo(cache, id, r1, r2, seasonReply) ==
    IF id \in DOMAIN cache
    THEN [val |-> cache[id], err |-> NoErr, cache |-> cache, reqs |-> <<>>]
    ELSE LET firstType == IF HasPrefix(id, <<"tv", "/">>) THEN "tv" ELSE "movie"
             firstURL  == IF HasPrefix(id, <<"movie", "/">>) \/ HasPrefix(id, <<"tv", "/">>)
                          THEN id
                          ELSE <<"movie", "/">> \o id
             retry     == r1.status # StatusOK
             secondURL == <<"tv", "/">> \o id
             mediaType == IF retry THEN "tv" ELSE firstType
             infoURL   == IF retry THEN secondURL ELSE firstURL
             page      == IF retry THEN r2 ELSE r1
             pageReqs  == IF retry THEN <<firstURL, secondURL>> ELSE <<firstURL>>
             built     == BuildInfo(id, mediaType, infoURL, page, seasonReply)
         IN  IF retry /\ r2 = TransportFail
             THEN [val   |-> Nil,
                   err   |-> Wrap("failed to fetch info", Root(0, "transport")),
                   cache |-> cache,
                   reqs  |-> pageReqs]
             ELSE [val   |-> built.info,
                   err   |-> NoErr,
                   cache |-> StoreInfo(cache, id, built.info),
                   reqs  |-> pageReqs \o built.reqs]

\* GetMediaDetails, given what GetInfo returned
GetMediaDetails(id, got) ==
    IF got.err # NoErr
    THEN [val |-> Nil, err |-> got.err]
    ELSE [val |-> [ID    |-> id,
                   Title |-> got.val.Title,
                   Type  |-> IF got.val.Type = "tv" THEN "tv" ELSE "movie"],
          err |-> NoErr]

----------------------------------------------------------------------------
(* SFlix.Search                                                               *)

\* query strings a caller may pass: they differ in one character, and the search
\* URL built for them is the same
Queries == { <<"a", " ", "b">>, <<"a", "-", "b">> }

\* strings.ReplaceAll(query, " ", "-")
ReplaceSpaces(query) == [i \in 1..Len(query) |-> IF query[i] = " " THEN "-" ELSE query[i]]

\* strings.TrimPrefix(s, p)
TrimPrefix(s, p) == IF HasPrefix(s, p) THEN SubSeq(s, Len(p) + 1, Len(s)) ELSE s

\* replies to the search request: the request fails, an error page without
\* result items, or the result page of the content the site serves at present
\* (its items: a show, an item without href, an item whose href has one segment)
SearchFail == [fail |-> TRUE, status |-> 0, items |-> <<>>]

SearchReplies(content) ==
    { SearchFail,
      [fail |-> FALSE, status |-> 404, items |-> <<>>],
      [fail |-> FALSE, status |-> StatusOK,
       items |-> << [title |-> content, href |-> <<"/", "tv", "/", "a", "/", "x">>],
                    [title |-> content, href |-> <<>>],
                    [title |-> content, href |-> <<"/", "a">>] >>] }

\* the Media built from one div.flw-item
ParseItem(item) ==
    LET parts == Split(TrimPrefix(item.href, <<"/">>), "/")
    IN  [ID    |-> IF Len(parts) >= 2 THEN parts[1] \o <<"/">> \o parts[2]
                   ELSE parts[1],
         Title |-> item.title,
         Type  |-> IF Len(parts) >= 2 /\ parts[1] = <<"tv">> THEN "tv" ELSE "movie"]

\* the Each loop over the result items: items without href are skipped
RECURSIVE ParseResults(_)
ParseResults(items) ==
    IF items = <<>> THEN <<>>
    ELSE IF Head(items).href # <<>>
         THEN <<ParseItem(Head(items))>> \o ParseResults(Tail(items))
         ELSE ParseResults(Tail(items))

\* variant: results are stored under the query as the search URL spells it
StoreSearchNormalised(cache, query, results) == (ReplaceSpaces(query) :> results) @@ cache

\* s.searchCache.Store(query, results)
StoreSearch(cache, query, results) == (query :> results) @@ cache

\* variant: a failed request is remembered as an empty result
SearchStoringFailure(cache, query, reply) ==
    IF query \in DOMAIN cache
    THEN [val |-> cache[query], err |-> NoErr, cache |-> cache, reqs |-> <<>>]
    ELSE LET searchURL == <<"search", "/">> \o ReplaceSpaces(query)
             results == ParseResults(reply.items)
         IN  IF reply.fail
             THEN [val   |-> <<>>,
                   err   |-> Wrap("failed to fetch search results", Root(0, "transport")),
                   cache |-> StoreSearch(cache, query, <<>>),
                   reqs  |-> <<searchURL>>]
             ELSE [val   |-> results,
                   err   |-> NoErr,
                   cache |-> StoreSearch(cache, query, results),
                   reqs  |-> <<searchURL>>]

\* Search on an adapter whose searchCache is `cache`: the pair returned (a nil
\* slice is the empty sequence), the searchCache afterwards and the requests
\* issued
Search(cache, query, reply) ==
    IF query \in DOMAIN cache
    THEN [val |-> cache[query], err |-> NoErr, cache |-> cache, reqs |-> <<>>]
    ELSE LET searchURL == <<"search", "/">> \o ReplaceSpaces(query)
             results == ParseResults(reply.items)
         IN  IF reply.fail
             THEN [val   |-> <<>>,
                   err   |-> Wrap("failed to fetch search results", Root(0, "transport")),
                   cache |-> cache,
                   reqs  |-> <<searchURL>>]
             ELSE [val   |-> results,
                   err   |-> NoErr,
                   cache |-> StoreSearch(cache, query, results),
                   reqs  |-> <<searchURL>>]

----------------------------------------------------------------------------
(* State machine of one adapter and one caller issuing metadata calls, while  *)
(* the upstream site changes its content                                      *)

\* the replies that are read: r2 only after a failed first request, the season
\* list only for a tv page with a data-id
SecondReplies(cache, id, r1, content) ==
    IF id \notin DOMAIN cache /\ r1.status # StatusOK
    THEN PageReplies(content) ELSE {TransportFail}

SeasonRepliesFor(cache, id, r1, r2) ==
    LET retry == r1.status # StatusOK
        page == IF retry THEN r2 ELSE r1
        isTV == retry \/ HasPrefix(id, <<"tv", "/">>)
    IN  IF id \notin DOMAIN cache /\ isTV /\ page.dataID # ""
        THEN SeasonListReplies
        ELSE {[fail |-> TRUE, seasons |-> <<>>]}

\* an answer with a 2xx status
Is2xx(status) == status \div 100 = 2

\* some request GetInfo issued failed or was answered with a non-2xx status: the
\* first page request, the /tv/ retry, the season-list request or one of the
\* episode-page requests of fetchEpisodeList
InfoRequestFailed(cache, id, r1, r2, seasonReply) ==
    /\ id \notin DOMAIN cache
    /\ \/ ~Is2xx(r1.status)
       \/ r1.status # StatusOK /\ ~Is2xx(r2.status)
       \/ /\ SeasonRepliesFor(cache, id, r1, r2) = SeasonListReplies
          /\ \/ seasonReply.fail
             \/ \E k \in 1..Len(seasonReply.seasons) : seasonReply.seasons[k].episodes < 0

\* the search request failed or was answered with a non-2xx status
SearchRequestFailed(cache, query, reply) ==
    /\ query \notin DOMAIN cache
    /\ reply.fail \/ ~Is2xx(reply.status)

CallGetMediaDetails(id, r1, r2, seasonReply) ==
    /\ Len(history) < MaxCalls
    /\ LET got == GetInfo(infoCache, id, r1, r2, seasonReply)
       IN  /\ infoCache' = got.cache
           /\ history' = Append(history,
                                [method |-> "GetMediaDetails",
                                 arg    |-> id,
                                 reqs   |-> got.reqs,
                                 served |-> site,
                                 failed |-> InfoRequestFailed(infoCache, id, r1, r2,
                                                              seasonReply),
                                 ret    |-> GetMediaDetails(id, got)])
    /\ UNCHANGED <<searchCache, site>>
    /\ UNCHANGED outsideMeta

\* the replies that are read by Search: none on a cache hit
SearchRepliesFor(cache, query, content) ==
    IF query \in DOMAIN cache THEN {SearchFail} ELSE SearchReplies(content)

CallSearch(query, reply) ==
    /\ Len(history) < MaxCalls
    /\ LET got == Search(searchCache, query, reply)
       IN  /\ searchCache' = got.cache
           /\ history' = Append(history,
                                [method |-> "Search",
                                 arg    |-> query,
                                 reqs   |-> got.reqs,
                                 served |-> site,
                                 failed |-> SearchRequestFailed(searchCache, query, reply),
                                 ret    |-> [val |-> got.val, err |-> got.err]])
    /\ UNCHANGED <<infoCache, site>>
    /\ UNCHANGED outsideMeta

\* the upstream site replaces its content
UpstreamChange ==
    /\ \E t \in Titles \ {site} : site' = t
    /\ UNCHANGED <<history, cacheVars>>
    /\ UNCHANGED outsideMeta

NextMeta ==
    \/ \E id \in MediaIDs, r1 \in PageReplies(site) :
          \E r2 \in SecondReplies(infoCache, id, r1, site) :
             \E sr \in SeasonRepliesFor(infoCache, id, r1, r2) :
                CallGetMediaDetails(id, r1, r2, sr)
    \/ \E query \in Queries :
          \E reply \in SearchRepliesFor(searchCache, query, site) :
             CallSearch(query, reply)
    \/ UpstreamChange

SpecMeta == Init /\ [][NextMeta]_vars

----------------------------------------------------------------------------
(* Concurrent callers of one adapter.  The caches are sync.Maps: a Load and a *)
(* Store are each atomic, and nothing is held between the Load at the head of *)
(* a method and the Store at its end, so a call is three steps that           *)
(* interleave with the steps of the other callers.                            *)

outsideRace == <<streamVars, history, browseVars, regVars, plugVars, eachRun>>

CachedMethods == {"GetInfo", "Search"}

KeysOf(method) == IF method = "GetInfo" THEN MediaIDs ELSE Queries

CacheOf(method) == IF method = "GetInfo" THEN infoCache ELSE searchCache

\* s.infoCache.Load(id) / s.searchCache.Load(query) at the head of the method:
\* a hit returns the entry, a miss goes on to the upstream
RaceLoad(c, method, key) ==
    /\ calls[c].pc = "idle"
    /\ calls' = [calls EXCEPT ![c] =
                    IF key \in DOMAIN CacheOf(method)
                    THEN [pc |-> "done", method |-> method, key |-> key,
                          val |-> CacheOf(method)[key], err |-> NoErr]
                    ELSE [pc |-> "fetching", method |-> method, key |-> key,
                          val |-> Nil, err |-> NoErr]]
    /\ UNCHANGED <<stores, site, cacheVars>>
    /\ UNCHANGED outsideRace

\* the requests and the parsing of GetInfo after a miss
RaceFetchInfo(c, r1, r2, seasonReply) ==
    /\ calls[c].pc = "fetching"
    /\ calls[c].method = "GetInfo"
    /\ LET got == GetInfo(EmptyMap, calls[c].key, r1, r2, seasonReply)
       IN  calls' = [calls EXCEPT ![c].pc = IF got.err = NoErr THEN "storing" ELSE "done",
                                  ![c].val = got.val,
                                  ![c].err = got.err]
    /\ UNCHANGED <<stores, site, cacheVars>>
    /\ UNCHANGED outsideRace

\* the request and the parsing of Search after a miss
RaceFetchSearch(c, reply) ==
    /\ calls[c].pc = "fetching"
    /\ calls[c].method = "Search"
    /\ LET got == Search(EmptyMap, calls[c].key, reply)
       IN  calls' = [calls EXCEPT ![c].pc = IF got.err = NoErr THEN "storing" ELSE "done",
                                  ![c].val = got.val,
                                  ![c].err = got.err]
    /\ UNCHANGED <<stores, site, cacheVars>>
    /\ UNCHANGED outsideRace

\* the Store at the end of the method, and the return
RaceStore(c) ==
    /\ calls[c].pc = "storing"
    /\ IF calls[c].method = "GetInfo"
       THEN /\ infoCache' = StoreInfo(infoCache, calls[c].key, calls[c].val)
            /\ UNCHANGED searchCache
       ELSE /\ searchCache' = StoreSearch(searchCache, calls[c].key, calls[c].val)
            /\ UNCHANGED infoCache
    /\ stores' = Append(stores, [by |-> c, method |-> calls[c].method,
                                 key |-> calls[c].key, val |-> calls[c].val])
    /\ calls' = [calls EXCEPT ![c].pc = "done"]
    /\ UNCHANGED site
    /\ UNCHANGED outsideRace

\* the steps caller c can take
RaceStep(c) ==
    \/ \E method \in CachedMethods : \E key \in KeysOf(method) : RaceLoad(c, method, key)
    \/ \E r1 \in PageReplies(site) :
          \E r2 \in SecondReplies(EmptyMap, calls[c].key, r1, site) :
             \E sr \in SeasonRepliesFor(EmptyMap, calls[c].key, r1, r2) :
                RaceFetchInfo(c, r1, r2, sr)
    \/ \E reply \in SearchReplies(site) : RaceFetchSearch(c, reply)
    \/ RaceStore(c)

NextRace ==
    \/ \E c \in Callers : RaceStep(c)
    \/ UpstreamChange

SpecRace == Init /\ [][NextRace]_vars

----------------------------------------------------------------------------
(* SFlix.GetSeasons and SFlix.GetEpisodes                                     *)

Digits == <<"0", "1", "2", "3", "4", "5", "6", "7", "8", "9">>

IsDigit(c) == \E d \in 1..10 : Digits[d] = c

DigitValue(c) == (CHOOSE d \in 1..10 : Digits[d] = c) - 1

RECURSIVE FormatNat(_)
FormatNat(n) ==
    IF n < 10 THEN <<Digits[n + 1]>>
    ELSE FormatNat(n \div 10) \o <<Digits[(n % 10) + 1]>>

\* the %d verb of fmt.Sprintf
FormatInt(n) == IF n < 0 THEN <<"-">> \o FormatNat(-n) ELSE FormatNat(n)

RECURSIVE ParseNat(_)
ParseNat(s) ==
    IF s = <<>> THEN 0
    ELSE 10 * ParseNat(SubSeq(s, 1, Len(s) - 1)) + DigitValue(s[Len(s)])

\* variant: only the last digit is read
AtoiLastDigit(s) ==
    IF s # <<>> /\ IsDigit(s[Len(s)])
    THEN [err |-> FALSE, n |-> DigitValue(s[Len(s)])]
    ELSE [err |-> TRUE, n |-> 0]

\* strconv.Atoi(s): an optional sign and at least one digit
Atoi(s) ==
    LET signed == s # <<>> /\ s[1] \in {"+", "-"}
        body   == IF signed THEN Tail(s) ELSE s
    IN  IF body # <<>> /\ \A i \in 1..Len(body) : IsDigit(body[i])
        THEN [err |-> FALSE,
              n   |-> IF signed /\ s[1] = "-" THEN -ParseNat(body) ELSE ParseNat(body)]
        ELSE [err |-> TRUE, n |-> 0]

\* the season number GetSeasons and GetEpisodes read off an episode: 0 is 1
ReadSeason(ep) == IF ep.Season = 0 THEN 1 ELSE ep.Season

\* the loop of GetSeasons over the episodes: one Season per number, in the
\* order of first appearance (seasonsMap is the set `seen`)
RECURSIVE CollectSeasons(_, _, _)
CollectSeasons(mediaID, episodes, seen) ==
    IF episodes = <<>> THEN <<>>
    ELSE LET sNum == ReadSeason(Head(episodes))
         IN  IF sNum \in seen
             THEN CollectSeasons(mediaID, Tail(episodes), seen)
             ELSE <<[ID     |-> mediaID \o <<"|">> \o FormatInt(sNum),
                     Number |-> sNum,
                     Title  |-> <<"Season", " ">> \o FormatInt(sNum)]>>
                  \o CollectSeasons(mediaID, Tail(episodes), seen \cup {sNum})

\* variant: the seasons are left in the order of first appearance
SortSeasonsNone(seasons, i, j) == seasons

\* the two nested loops that sort the seasons: position i is compared with
\* every later position j and exchanged with it when larger
RECURSIVE SortSeasons(_, _, _)
SortSeasons(seasons, i, j) ==
    IF i > Len(seasons) THEN seasons
    ELSE IF j > Len(seasons) THEN SortSeasons(seasons, i + 1, i + 2)
    ELSE IF seasons[i].Number > seasons[j].Number
         THEN SortSeasons([seasons EXCEPT ![i] = seasons[j], ![j] = seasons[i]], i, j + 1)
         ELSE SortSeasons(seasons, i, j + 1)

\* GetSeasons, given what GetInfo(mediaID) returned
GetSeasons(mediaID, got) ==
    IF got.err # NoErr
    THEN [val |-> <<>>, err |-> got.err]
    ELSE IF Len(got.val.Episodes) = 0
    THEN [val |-> <<[ID |-> mediaID, Number |-> 1, Title |-> <<"Season", " ", "1">>]>>,
          err |-> NoErr]
    ELSE [val |-> SortSeasons(CollectSeasons(mediaID, got.val.Episodes, {}), 1, 2),
          err |-> NoErr]

\* the head of GetEpisodes: the media id and the season number of a season id
ParseSeasonID(seasonID) ==
    IF Contains(seasonID, "|")
    THEN LET parts == Split(seasonID, "|")
             a == Atoi(parts[2])
         IN  [mediaID |-> parts[1], seasonNum |-> IF a.err THEN 1 ELSE a.n]
    ELSE [mediaID |-> seasonID, seasonNum |-> 1]

\* the Episode GetEpisodes emits for an episode of the info
EmitEpisode(ep) ==
    [ID     |-> IF ep.URL # <<>> /\ ep.URL # ep.ID
                THEN ep.ID \o <<"|">> \o ep.URL
                ELSE ep.ID,
     Number |-> ep.Number,
     Title  |-> ep.Title,
     Season |-> ReadSeason(ep)]

\* the loop of GetEpisodes over the episodes of the info
RECURSIVE EpisodesOfSeason(_, _)
EpisodesOfSeason(episodes, seasonNum) ==
    IF episodes = <<>> THEN <<>>
    ELSE IF ReadSeason(Head(episodes)) = seasonNum
         THEN <<EmitEpisode(Head(episodes))>> \o EpisodesOfSeason(Tail(episodes), seasonNum)
         ELSE EpisodesOfSeason(Tail(episodes), seasonNum)

\* variant: nothing is synthesized for an info without episodes
WholeTitleEpisodeNone(info, seasonNum) == <<>>

\* the episode appended for an info without episodes, when season 1 is asked for
WholeTitleEpisode(info, seasonNum) ==
    IF Len(info.Episodes) = 0 /\ seasonNum = 1
    THEN <<[ID |-> info.ID, Number |-> 1, Title |-> info.Title, Season |-> 1]>>
    ELSE <<>>

\* GetEpisodes, given what GetInfo returned for the media id of seasonID
GetEpisodes(seasonID, got) ==
    LET seasonNum == ParseSeasonID(seasonID).seasonNum
    IN  IF got.err # NoErr
        THEN [val |-> <<>>, err |-> got.err]
        ELSE [val |-> EpisodesOfSeason(got.val.Episodes, seasonNum)
                      \o WholeTitleEpisode(got.val, seasonNum),
              err |-> NoErr]

----------------------------------------------------------------------------
(* State machine of one adapter and one caller browsing a title: GetSeasons  *)
(* for a media id, then GetEpisodes for season ids                            *)

outsideBrowse == <<streamVars, metaVars, raceVars, searchCache, regVars, plugVars, eachRun>>

\* season-list replies with seasons out of order, a number of two digits, and
\* a season numbered 0 beside season 1
BrowseSeasonReplies ==
    SeasonListReplies \cup
    { [fail |-> FALSE, seasons |-> <<[number |-> 12, episodes |-> 1],
                                     [number |-> 2,  episodes |-> 2],
                                     [number |-> 1,  episodes |-> 1]>>],
      [fail |-> FALSE, seasons |-> <<[number |-> 1, episodes |-> 2],
                                     [number |-> 0, episodes |-> 1]>>] }

BrowseSeasonRepliesFor(cache, id, r1, r2) ==
    IF SeasonRepliesFor(cache, id, r1, r2) = SeasonListReplies
    THEN BrowseSeasonReplies
    ELSE SeasonRepliesFor(cache, id, r1, r2)

\* media ids of the titles browsed: those of MediaIDs, and a series whose slug
\* has the word "movie" in it
BrowseMediaIDs == MediaIDs \cup { <<"tv", "/", "movie", "-", "a">> }

\* season ids the caller passes on: those GetSeasons returned, the bare media
\* id, an id whose suffix is not a number, and the id of a season not listed
SeasonArgs(mediaID, seasons) ==
    {seasons[k].ID : k \in 1..Len(seasons)}
    \cup {mediaID, mediaID \o <<"|", "x">>, mediaID \o <<"|", "7">>}

CallGetSeasons(mediaID, r1, r2, seasonReply) ==
    /\ seasonsRet = Nil
    /\ LET got == GetInfo(infoCache, mediaID, r1, r2, seasonReply)
       IN  /\ infoCache' = got.cache
           /\ seasonsRet' = [arg |-> mediaID, ret |-> GetSeasons(mediaID, got)]
    /\ UNCHANGED episodesRet
    /\ UNCHANGED outsideBrowse

CallGetEpisodes(seasonID, r1, r2, seasonReply) ==
    /\ seasonsRet # Nil
    /\ seasonsRet.ret.err = NoErr
    /\ seasonID \in SeasonArgs(seasonsRet.arg, seasonsRet.ret.val)
    /\ LET got == GetInfo(infoCache, ParseSeasonID(seasonID).mediaID, r1, r2, seasonReply)
       IN  /\ infoCache' = got.cache
           /\ episodesRet' = (seasonID :> GetEpisodes(seasonID, got)) @@ episodesRet
    /\ UNCHANGED seasonsRet
    /\ UNCHANGED outsideBrowse

\* the season ids that can be passed at present
SeasonArgsNow ==
    IF seasonsRet # Nil /\ seasonsRet.ret.err = NoErr
    THEN SeasonArgs(seasonsRet.arg, seasonsRet.ret.val)
    ELSE {}

NextBrowse ==
    \/ \E id \in BrowseMediaIDs, r1 \in PageReplies(site) :
          \E r2 \in SecondReplies(infoCache, id, r1, site) :
             \E sr \in BrowseSeasonRepliesFor(infoCache, id, r1, r2) :
                CallGetSeasons(id, r1, r2, sr)
    \/ \E sid \in SeasonArgsNow, r1 \in PageReplies(site) :
          \E r2 \in SecondReplies(infoCache, ParseSeasonID(sid).mediaID, r1, site) :
             \E sr \in BrowseSeasonRepliesFor(infoCache, ParseSeasonID(sid).mediaID, r1, r2) :
                CallGetEpisodes(sid, r1, r2, sr)

SpecBrowse == Init /\ [][NextBrowse]_vars

----------------------------------------------------------------------------
(* registry.Registry: Load, Get and List (internal/registry/manager.go)       *)

outsideRegistry == <<cacheVars, streamVars, metaVars, raceVars, browseVars, plugVars, eachRun>>

\* configurations: the settings (config.ProviderSettings) of sflix, those of
\* the plugins, and those the other built-in providers share; and one in which
\* the plugins are set to remote mode.  A URL is a sequence of tokens, "/"
\* among them.
Configs ==
    LET Disabled      == [Enabled |-> FALSE, Mode |-> "local",  RemoteURL |-> <<>>]
        Local         == [Enabled |-> TRUE,  Mode |-> "local",  RemoteURL |-> <<>>]
        RemoteNoURL   == [Enabled |-> TRUE,  Mode |-> "remote", RemoteURL |-> <<>>]
        RemoteGeneric == [Enabled |-> TRUE,  Mode |-> "remote",
                          RemoteURL |-> <<"api", "/">>]
        RemoteFull    == [Enabled |-> TRUE,  Mode |-> "remote",
                          RemoteURL |-> <<"api", "/", "movies", "/", "sflix">>]
    IN  { [HiAnime |-> rest, AllAnime |-> rest, SFlix |-> sf, FlixHQ |-> rest,
           HDRezka |-> rest, Comix |-> rest, Lua |-> lua] :
            sf \in {Disabled, Local, RemoteNoURL, RemoteGeneric, RemoteFull},
            rest \in {Disabled, Local},
            lua \in {Disabled, Local} }
        \cup
        { [HiAnime |-> Disabled, AllAnime |-> Disabled, SFlix |-> Local,
           FlixHQ |-> Disabled, HDRezka |-> Disabled, Comix |-> Disabled, Lua |-> lua] :
            lua \in {RemoteGeneric} }

\* the known providers in the order Load registers them: name, settings field,
\* media type
BuiltIns ==
    << [name |-> "hianime",       key |-> "HiAnime",  mediaType |-> "anime"],
       [name |-> "allanime",      key |-> "AllAnime", mediaType |-> "anime"],
       [name |-> "sflix",         key |-> "SFlix",    mediaType |-> "movies"],
       [name |-> "flixhq",        key |-> "FlixHQ",   mediaType |-> "movies"],
       [name |-> "hdrezka",       key |-> "HDRezka",  mediaType |-> "movies"],
       [name |-> "hdrezka_anime", key |-> "HDRezka",  mediaType |-> "anime"],
       [name |-> "comix",         key |-> "Comix",    mediaType |-> "manga"] >>

\* entries of the plugin directory: a sub-directory, a file that is no .lua
\* file, and scripts: one that loads and reports a name of its own, one that
\* loads and reports the name of a built-in, one that loads but has no usable
\* get_name, and one that fails to load
FileKinds == {"dir", "txt", "ok", "clash", "noname", "bad"}

\* what os.ReadDir returns: an error, or the entries in directory order
DirListings ==
    { [err |-> TRUE,  files |-> <<>>],
      [err |-> FALSE, files |-> <<>>],
      [err |-> FALSE, files |-> <<"dir", "txt">>],
      [err |-> FALSE, files |-> <<"bad", "ok">>],
      [err |-> FALSE, files |-> <<"clash", "ok">>],
      [err |-> FALSE, files |-> <<"noname", "noname">>] }

\* a Provider value: a native adapter, a remote client, or the plugin adapter
\* of the file at position `file` of the directory
LocalProvider(name) == [kind |-> "local", impl |-> name, url |-> <<>>, file |-> 0]

\* remote.New(name, url)
RemoteProvider(name, url) == [kind |-> "remote", impl |-> name, url |-> url, file |-> 0]

PluginProvider(name, i) == [kind |-> "plugin", impl |-> name, url |-> <<>>, file |-> i]

\* strings.Contains(url, "/"+name)
ContainsSlashName(url, name) ==
    \E i \in 1..(Len(url) - 1) : url[i] = "/" /\ url[i + 1] = name

\* strings.TrimRight(url, "/")
RECURSIVE TrimRightSlash(_)
TrimRightSlash(url) ==
    IF url # <<>> /\ url[Len(url)] = "/"
    THEN TrimRightSlash(SubSeq(url, 1, Len(url) - 1))
    ELSE url

\* variant: a name that is registered already keeps its provider
RegisterKeepFirst(providers, name, settings, localProvider, mediaType) ==
    IF ~settings.Enabled THEN providers
    ELSE IF settings.Mode = "remote"
    THEN IF settings.RemoteURL # <<>>
         THEN LET url == IF ~ContainsSlashName(settings.RemoteURL, name)
                         THEN TrimRightSlash(settings.RemoteURL)
                              \o <<"/", mediaType, "/", name>>
                         ELSE settings.RemoteURL
              IN  providers @@ (name :> RemoteProvider(name, url))
         ELSE providers
    ELSE providers @@ (name :> localProvider)

\* variant: an enabled provider is registered whatever its mode and URL
RegisterEnabledOnly(providers, name, settings, localProvider, mediaType) ==
    IF ~settings.Enabled THEN providers
    ELSE (name :> localProvider) @@ providers

\* the register helper of Load, applied to the provider map
Register(providers, name, settings, localProvider, mediaType) ==
    IF ~settings.Enabled THEN providers
    ELSE IF settings.Mode = "remote"
    THEN IF settings.RemoteURL # <<>>
         THEN LET url == IF ~ContainsSlashName(settings.RemoteURL, name)
                         THEN TrimRightSlash(settings.RemoteURL)
                              \o <<"/", mediaType, "/", name>>
                         ELSE settings.RemoteURL
              IN  (name :> RemoteProvider(name, url)) @@ providers
         ELSE providers
    ELSE (name :> localProvider) @@ providers

\* the seven register calls for the known providers, from the k-th on
RECURSIVE RegisterKnown(_, _, _)
RegisterKnown(providers, cfg, k) ==
    IF k > Len(BuiltIns) THEN providers
    ELSE LET b == BuiltIns[k]
         IN  RegisterKnown(Register(providers, b.name, cfg[b.key],
                                    LocalProvider(b.name), b.mediaType),
                           cfg, k + 1)

\* what constructing a plugin adapter from a script that fails to load can do.
\* luaprovider.New returns a single value and no error, so a failure either
\* panics out of New or leaves an adapter whose plugin context is unusable.
BadLoadOutcomes == {"panic", "broken"}

\* luaprovider.New(path) followed by lp.Name() and lp.Type(): whether New
\* panics, and the name and type the adapter reports ("Unknown" is the
\* sentinel Name() returns when get_name cannot be called)
NewLuaProvider(kind, onBad) ==
    CASE kind = "ok"     -> [panics |-> FALSE, name |-> "example", type |-> "movies"]
      [] kind = "clash"  -> [panics |-> FALSE, name |-> "sflix",   type |-> "movies"]
      [] kind = "noname" -> [panics |-> FALSE, name |-> "Unknown", type |-> "movies"]
      [] OTHER           -> [panics |-> onBad = "panic", name |-> "Unknown",
                             type |-> "unknown"]

\* the loop of Load over the directory entries, from the i-th on: the provider
\* map afterwards, and whether the loop was left by a panic
RECURSIVE ScanPlugins(_, _, _, _, _)
ScanPlugins(providers, cfg, files, i, onBad) ==
    IF i > Len(files) THEN [providers |-> providers, panicked |-> FALSE]
    ELSE IF files[i] \in {"dir", "txt"}
    THEN ScanPlugins(providers, cfg, files, i + 1, onBad)
    ELSE LET lp == NewLuaProvider(files[i], onBad)
         IN  IF lp.panics
             THEN [providers |-> providers, panicked |-> TRUE]
             ELSE ScanPlugins(Register(providers, lp.name, cfg.Lua,
                                       PluginProvider(lp.name, i), lp.type),
                              cfg, files, i + 1, onBad)

\* variant: Load starts from an empty provider map
LoadFromEmpty(cfg, dir, onBad) ==
    /\ loadStatus # "panicked"
    /\ \E known \in {RegisterKnown(EmptyMap, cfg, 1)} :
          \E scanned \in {IF dir.err
                          THEN [providers |-> known, panicked |-> FALSE]
                          ELSE ScanPlugins(known, cfg, dir.files, 1, onBad)} :
             /\ registry' = scanned.providers
             /\ loadStatus' = IF scanned.panicked THEN "panicked" ELSE "completed"
    /\ lastCfg' = cfg
    /\ lastDir' = dir
    /\ UNCHANGED outsideRegistry

\* Registry.Load(cfg), the plugin directory reading `dir`
Load(cfg, dir, onBad) ==
    /\ loadStatus # "panicked"
    /\ \E known \in {RegisterKnown(registry, cfg, 1)} :
          \E scanned \in {IF dir.err
                          THEN [providers |-> known, panicked |-> FALSE]
                          ELSE ScanPlugins(known, cfg, dir.files, 1, onBad)} :
             /\ registry' = scanned.providers
             /\ loadStatus' = IF scanned.panicked THEN "panicked" ELSE "completed"
    /\ lastCfg' = cfg
    /\ lastDir' = dir
    /\ UNCHANGED outsideRegistry

\* Registry.Get(name)
Get(providers, name) ==
    IF name \in DOMAIN providers
    THEN [val |-> providers[name], err |-> NoErr]
    ELSE [val |-> Nil, err |-> [msgs |-> <<"provider not found">>, at |-> 0, cause |-> name]]

\* Registry.List(): the keys, in no particular order
List(providers) == DOMAIN providers

\* the outcomes that can occur for a directory: a choice only if it holds a
\* script that fails to load
BadLoadOutcomesFor(dir) ==
    IF \E i \in 1..Len(dir.files) : dir.files[i] = "bad"
    THEN BadLoadOutcomes
    ELSE {"panic"}

NextRegistry ==
    \E cfg \in Configs, dir \in DirListings :
        \E onBad \in BadLoadOutcomesFor(dir) :
            Load(cfg, dir, onBad)

SpecRegistry == Init /\ [][NextRegistry]_vars

----------------------------------------------------------------------------
(* Plugin Adapter: every Provider method acquires the adapter's lock, looks   *)
(* the plugin function up, invokes it and unmarshals its value, releases the  *)
(* lock and returns                                                           *)

outsidePlugin == <<cacheVars, streamVars, metaVars, raceVars, browseVars, regVars, eachRun>>

PluginMethods == {"Name", "Search"}

\* the fixed name of the plugin function behind a Provider method
FunctionName(method) == IF method = "Name" THEN "get_name" ELSE "search"

\* what invoking a defined plugin function can give: a value of the expected
\* shape, a runtime error raised by the plugin, a value that cannot be
\* unmarshaled
InvokeOutcomes == {"ok", "runtime_error", "bad_value"}

\* steps 2 and 3 of a call: the pair the method will return
CallFunction(script, method, outcome) ==
    LET fn == FunctionName(method)
        err == IF fn \notin script.defines
               THEN [msgs |-> <<"function not found">>, at |-> 0, cause |-> fn]
               ELSE IF outcome = "runtime_error"
               THEN Wrap("failed to call function", Root(0, "plugin runtime error"))
               ELSE IF outcome = "bad_value"
               THEN Wrap("failed to unmarshal", Root(0, "unexpected value"))
               ELSE NoErr
    IN  IF method = "Name"
        THEN [val |-> IF err = NoErr THEN script.name ELSE "Unknown", err |-> NoErr]
        ELSE [val |-> IF err = NoErr THEN "results" ELSE "", err |-> err]

\* variant: a call that returns an error leaves the interpreter without its
\* functions
AfterCallDisabling(state, res) ==
    IF res.err # NoErr THEN [state EXCEPT !.defines = {}] ELSE state

\* the script state a call leaves behind: a lookup that fails, a runtime
\* error and an unmarshal failure do not alter the interpreter
AfterCall(state, res) == state

\* variant: the lock is never seen as held
LockFreeAlways(l, a) == TRUE

\* the lock of adapter a can be acquired
LockFree(l, a) == l[a] = "free"

\* variant: the lock is released only when the call succeeded
UnlockOnSuccess(l, a, res) == IF res.err = NoErr THEN [l EXCEPT ![a] = "free"] ELSE l

\* step 4: the lock of adapter a is released, whatever pair is returned
Unlock(l, a, res) == [l EXCEPT ![a] = "free"]

\* goroutine g calls `method` on adapter a and arrives at the lock
PluginCall(g, a, method) ==
    /\ plugCalls[g].pc = "idle"
    /\ plugCalls' = [plugCalls EXCEPT ![g] =
                        [pc |-> "waiting", adapter |-> a, method |-> method,
                         outcome |-> "none", ret |-> Nil]]
    /\ UNCHANGED <<lock, luaState>>
    /\ UNCHANGED outsidePlugin

\* step 1: g acquires the lock of the adapter it called
AcquireLock(g) ==
    /\ plugCalls[g].pc = "waiting"
    /\ LockFree(lock, plugCalls[g].adapter)
    /\ lock' = [lock EXCEPT ![plugCalls[g].adapter] = g]
    /\ plugCalls' = [plugCalls EXCEPT ![g].pc = "inside"]
    /\ UNCHANGED luaState
    /\ UNCHANGED outsidePlugin

\* steps 2 and 3, inside the plugin execution context
RunFunction(g, outcome) ==
    /\ plugCalls[g].pc = "inside"
    /\ LET a == plugCalls[g].adapter
           res == CallFunction(luaState[a], plugCalls[g].method, outcome)
       IN  /\ plugCalls' = [plugCalls EXCEPT ![g].pc = "exiting",
                                             ![g].outcome = outcome,
                                             ![g].ret = res]
           /\ luaState' = [luaState EXCEPT ![a] = AfterCall(@, res)]
    /\ UNCHANGED lock
    /\ UNCHANGED outsidePlugin

\* step 4 and the return to the caller
ReleaseLock(g) ==
    /\ plugCalls[g].pc = "exiting"
    /\ lock' = Unlock(lock, plugCalls[g].adapter, plugCalls[g].ret)
    /\ plugCalls' = [plugCalls EXCEPT ![g].pc = "returned"]
    /\ UNCHANGED luaState
    /\ UNCHANGED outsidePlugin

\* the caller has taken the pair and is free to call again
TakeResult(g) ==
    /\ plugCalls[g].pc = "returned"
    /\ plugCalls' = [plugCalls EXCEPT ![g] = NoPluginCall]
    /\ UNCHANGED <<lock, luaState>>
    /\ UNCHANGED outsidePlugin

NextPlugin ==
    \E g \in PluginCallers :
        \/ \E a \in Adapters, method \in PluginMethods : PluginCall(g, a, method)
        \/ AcquireLock(g)
        \/ \E outcome \in InvokeOutcomes : RunFunction(g, outcome)
        \/ ReleaseLock(g)
        \/ TakeResult(g)

SpecPlugin == Init /\ [][NextPlugin]_vars

\* The plugin function invoked returns, the lock is released once the pair is
\* computed, and a goroutine blocked on the lock is not passed over for ever
\* (sync.Mutex hands the lock to a waiter that has been starved).
SpecPluginFair ==
    /\ SpecPlugin
    /\ \A g \in PluginCallers :
          /\ WF_vars(\E outcome \in InvokeOutcomes : RunFunction(g, outcome))
          /\ WF_vars(ReleaseLock(g))
          /\ SF_vars(AcquireLock(g))

----------------------------------------------------------------------------
(* Queryable document: html_parse(...):find(selector):each(callback). The     *)
(* host walks the match set with its own 0-based loop index and calls the     *)
(* plugin's callback for every node; what the callback raises is dropped      *)

outsideEach == <<cacheVars, streamVars, metaVars, raceVars, browseVars, regVars, plugVars>>

\* the longest document parsed
MaxNodes == 4

\* element names of the parsed documents, and the selectors plugins query
Tags == {"div", "a"}

\* a parsed document: its elements in document order
Documents == UNION {[1..n -> Tags] : n \in 0..MaxNodes}

\* :find(selector), the nodes of the document matching the selector, in
\* document order
Find(doc, selector) ==
    LET RECURSIVE From(_)
        From(p) == IF p > Len(doc) THEN <<>>
                   ELSE IF doc[p] = selector THEN <<p>> \o From(p + 1)
                   ELSE From(p + 1)
    IN  From(1)

\* variant: the host's loop index is handed to the callback as it is
CallbackIndexZeroBased(i) == i

\* the index handed to the callback for position i of the host's loop
CallbackIndex(i) == i + 1

\* what a callback invocation can do: return, or raise an error
CallbackOutcomes == {"returns", "raises"}

\* a plugin calls :each on the match set of a selector
CallEach(doc, selector) ==
    /\ eachRun.pc = "idle"
    /\ eachRun' = [pc |-> "iterating", doc |-> doc, sel |-> selector,
                   matched |-> Find(doc, selector), i |-> 0, invoked |-> <<>>]
    /\ UNCHANGED outsideEach

\* one turn of the loop: the callback is invoked for the next node; an error
\* it raises is dropped and the loop goes on
InvokeCallback(outcome) ==
    /\ eachRun.pc = "iterating"
    /\ eachRun.i < Len(eachRun.matched)
    /\ eachRun' = [eachRun EXCEPT
                      !.invoked = Append(@, [index |-> CallbackIndex(eachRun.i),
                                             node |-> eachRun.matched[eachRun.i + 1],
                                             raised |-> outcome = "raises"]),
                      !.i = @ + 1]
    /\ UNCHANGED outsideEach

\* the match set is exhausted: each returns
EachReturn ==
    /\ eachRun.pc = "iterating"
    /\ eachRun.i = Len(eachRun.matched)
    /\ eachRun' = [eachRun EXCEPT !.pc = "done"]
    /\ UNCHANGED outsideEach

\* the plugin goes on to its next query
NextQuery ==
    /\ eachRun.pc = "done"
    /\ eachRun' = NoEach
    /\ UNCHANGED outsideEach

NextEach ==
    \/ \E doc \in Documents, selector \in Tags : CallEach(doc, selector)
    \/ \E outcome \in CallbackOutcomes : InvokeCallback(outcome)
    \/ EachReturn
    \/ NextQuery

SpecEach == Init /\ [][NextEach]_vars

----------------------------------------------------------------------------
(* Properties of the info cache, read from the history of finished calls *)

\* calls i < j of the history are GetMediaDetails calls for the same media id
SameDetailsCalls(i, j) ==
    /\ i < j
    /\ history[i].method = "GetMediaDetails"
    /\ history[j].method = "GetMediaDetails"
    /\ history[i].arg = history[j].arg

\* C10 as stated: two GetMediaDetails(X) calls made in sequence issue exactly one
\* upstream fetch in total, and the second returns the first call's content.
C10_Stated ==
    \A i \in 1..Len(history), j \in 1..Len(history) :
        (SameDetailsCalls(i, j) /\ j = i + 1)
        => /\ Len(history[i].reqs) + Len(history[j].reqs) = 1
           /\ history[j].ret = history[i].ret

\* C10 as amended: of two GetMediaDetails(X) calls made in sequence, the first
\* of which returns without error, the second issues no upstream request and
\* returns the first call's content, even if the upstream content changed
\* between the calls; the requests of the pair are those of the first call.
\* When the first call returns an error nothing is cached, and the second
\* call fetches again.
C10_SecondServedFromCache ==
    \A i \in 1..Len(history), j \in 1..Len(history) :
        SameDetailsCalls(i, j)
        => IF history[i].ret.err = NoErr
           THEN /\ history[j].reqs = <<>>
                /\ history[j].ret = history[i].ret
                /\ history[i].arg \in DOMAIN infoCache
                /\ infoCache[history[i].arg].Title = history[i].ret.val.Title
           ELSE j = i + 1 => Len(history[j].reqs) >= 1

C10_Witness ==
    /\ Len(history) = 2
    /\ SameDetailsCalls(1, 2)
    /\ history[1].arg = <<"a">>
    /\ history[1].ret.err = NoErr
    /\ Len(history[1].reqs) = 2
    /\ history[1].served = "t1"
    /\ history[2].served = "t2"
    /\ history[2].reqs = <<>>
    /\ history[2].ret.val.Title = "t1"

----------------------------------------------------------------------------
(* Lifetime of the cache entries *)

\* calls i < j of the history are Search calls with the same query string
SameSearchCalls(i, j) ==
    /\ i < j
    /\ history[i].method = "Search"
    /\ history[j].method = "Search"
    /\ history[i].arg = history[j].arg

\* call j has the method and the argument of no earlier call that returned
\* without error
FreshKey(j) ==
    \A i \in 1..(j - 1) :
        ~ /\ history[i].method = history[j].method
          /\ history[i].arg = history[j].arg
          /\ history[i].ret.err = NoErr

\* C11: after a successful Search(q) every later Search with the identical
\* query returns the stored results without an upstream request, whatever the
\* upstream serves by then; the entry a successful Search or GetMediaDetails
\* call stored is still in its cache, unchanged, after every later operation;
\* and a call whose query or media id differs from the stored keys in any
\* character is not served from them: it issues its own request.
C11_CachedForLife ==
    /\ \A i \in 1..Len(history), j \in 1..Len(history) :
          (SameSearchCalls(i, j) /\ history[i].ret.err = NoErr)
          => /\ history[j].reqs = <<>>
             /\ history[j].ret = history[i].ret
    /\ \A i \in 1..Len(history) :
          history[i].ret.err = NoErr
          => IF history[i].method = "Search"
             THEN /\ history[i].arg \in DOMAIN searchCache
                  /\ searchCache[history[i].arg] = history[i].ret.val
             ELSE /\ history[i].arg \in DOMAIN infoCache
                  /\ infoCache[history[i].arg].Title = history[i].ret.val.Title
    /\ \A j \in 1..Len(history) : FreshKey(j) => Len(history[j].reqs) >= 1
    /\ DOMAIN searchCache \subseteq Queries
    /\ DOMAIN infoCache \subseteq MediaIDs

C11_Witness ==
    /\ Len(history) = 2
    /\ SameSearchCalls(1, 2)
    /\ history[1].arg = <<"a", " ", "b">>
    /\ history[1].ret.err = NoErr
    /\ Len(history[1].ret.val) = 2
    /\ history[1].reqs = << <<"search", "/", "a", "-", "b">> >>
    /\ history[1].served = "t1"
    /\ history[2].served = "t2"
    /\ history[2].reqs = <<>>
    /\ history[2].ret.val[1].Title = "t1"
    /\ DOMAIN searchCache = { <<"a", " ", "b">> }

----------------------------------------------------------------------------
(* Races on the caches *)

\* the Store operations on the entry of `key` in the cache of `method`
StoresOf(method, key) ==
    {i \in 1..Len(stores) : stores[i].method = method /\ stores[i].key = key}

\* callers c # d run the same method for the same key and both went to the
\* upstream for it
BothFetched(c, d) ==
    /\ c # d
    /\ calls[c].method = calls[d].method
    /\ calls[c].key = calls[d].key
    /\ calls[c].pc \in {"storing", "done"}
    /\ calls[d].pc \in {"storing", "done"}
    /\ \E i \in 1..Len(stores) : stores[i].by = c
    /\ \E i \in 1..Len(stores) : stores[i].by = d

\* C12: concurrent GetInfo or Search calls for a key the cache does not hold
\* do not wait for each other: whatever the other callers are doing, a caller
\* that has not returned can take its next step; and at every moment, hence
\* once all have completed, the cache entry of a key is exactly the value of
\* the Store performed last for that key.
C12_LastWriterWins ==
    /\ \A c \in Callers : calls[c].pc # "done" => ENABLED RaceStep(c)
    /\ \A method \in CachedMethods : \A key \in KeysOf(method) :
          IF StoresOf(method, key) = {}
          THEN key \notin DOMAIN CacheOf(method)
          ELSE /\ key \in DOMAIN CacheOf(method)
               /\ CacheOf(method)[key] = stores[MaxOf(StoresOf(method, key))].val

\* both callers fetched the info of the same id, the upstream changed between
\* the fetches, c2 stored first and c1 last: the cache holds what c1 fetched
C12_Witness ==
    /\ BothFetched("c1", "c2")
    /\ calls["c1"].pc = "done"
    /\ calls["c2"].pc = "done"
    /\ calls["c1"].method = "GetInfo"
    /\ calls["c1"].val.Title = "t1"
    /\ calls["c2"].val.Title = "t2"
    /\ Len(stores) = 2
    /\ stores[1].by = "c2"
    /\ stores[2].by = "c1"
    /\ infoCache[calls["c1"].key].Title = "t1"

----------------------------------------------------------------------------
(* Cancellation *)

\* C13: the pipeline honours cancellation between server attempts: once the
\* ctx passed to GetStreamURL was cancelled after an attempt that ended without
\* success, no further server is attempted.
C13_StopsOnCancel ==
    cancelledAt >= 1 => Len(outcomes) = cancelledAt

----------------------------------------------------------------------------
(* Season and episode identity *)

\* GetSeasons returned without error; BrowsedInfo is the info it read
SeasonsDone == seasonsRet # Nil /\ seasonsRet.ret.err = NoErr

BrowsedInfo == infoCache[seasonsRet.arg]

\* the season number of an episode, 0 read as 1
SeasonRead(ep) == IF ep.Season = 0 THEN 1 ELSE ep.Season

\* the episodes of `info` whose season number is n, in the info's order
OfSeason(info, n) == SelectSeq(info.Episodes, LAMBDA ep : SeasonRead(ep) = n)

RECURSIVE SumLen(_, _)
SumLen(f, S) ==
    IF S = {} THEN 0
    ELSE LET x == CHOOSE y \in S : TRUE
         IN  Len(f[x].val) + SumLen(f, S \ {x})

\* C14: for a media id m without '|' whose info has at least one episode, each
\* Season s returned by GetSeasons(m) has s.ID = m|s.Number (the number in
\* decimal), GetEpisodes(s.ID) returns exactly the episodes of m whose season
\* number (0 read as 1) is s.Number, in the info's order, each with
\* Season = s.Number, and the results over all seasons partition m's episodes:
\* every episode has the number of exactly one returned season, and the
\* results together have as many episodes as the info.
C14_SeasonRoundTrip ==
    (SeasonsDone /\ ~Contains(seasonsRet.arg, "|") /\ Len(BrowsedInfo.Episodes) >= 1)
    => LET m == seasonsRet.arg
           seasons == seasonsRet.ret.val
           ids == {seasons[k].ID : k \in 1..Len(seasons)}
       IN  /\ \A k \in 1..Len(seasons) :
                 seasons[k].ID = m \o <<"|">> \o FormatInt(seasons[k].Number)
           /\ \A k \in 1..Len(seasons) :
                 seasons[k].ID \in DOMAIN episodesRet
                 => LET got == episodesRet[seasons[k].ID]
                        want == OfSeason(BrowsedInfo, seasons[k].Number)
                    IN  /\ got.err = NoErr
                        /\ Len(got.val) = Len(want)
                        /\ \A j \in 1..Len(want) :
                              /\ Split(got.val[j].ID, "|")[1] = want[j].ID
                              /\ got.val[j].Number = want[j].Number
                              /\ got.val[j].Title = want[j].Title
                              /\ got.val[j].Season = seasons[k].Number
           /\ \A i \in 1..Len(BrowsedInfo.Episodes) :
                 Cardinality({k \in 1..Len(seasons) :
                     seasons[k].Number = SeasonRead(BrowsedInfo.Episodes[i])}) = 1
           /\ ids \subseteq DOMAIN episodesRet
              => SumLen(episodesRet, ids) = Len(BrowsedInfo.Episodes)

\* a show whose season list names seasons 12, 2 and 1 in that order: GetSeasons
\* returned 1, 2, 12 and GetEpisodes was called for each
C14_Witness ==
    /\ SeasonsDone
    /\ seasonsRet.arg = <<"tv", "/", "a">>
    /\ Len(seasonsRet.ret.val) = 3
    /\ seasonsRet.ret.val[3].ID = <<"tv", "/", "a", "|", "1", "2">>
    /\ BrowsedInfo.Episodes[1].Season = 12
    /\ \A k \in 1..3 : seasonsRet.ret.val[k].ID \in DOMAIN episodesRet
    /\ Len(episodesRet[seasonsRet.ret.val[2].ID].val) = 2
    /\ Len(episodesRet[seasonsRet.ret.val[3].ID].val) = 1

\* C15: an episode id emitted by GetEpisodes with a media id attached
\* (episodeID|mediaID) is enough for GetSources and GetServers: the split they
\* do recovers the data-id of that episode and the media id of the info, and
\* the server-list request is for that data-id.
C15_EpisodeIDSufficient ==
    SeasonsDone
    => \A sid \in DOMAIN episodesRet :
          LET got == episodesRet[sid].val
              want == OfSeason(BrowsedInfo, ParseSeasonID(sid).seasonNum)
          IN  \A j \in 1..Len(got) :
                 Contains(got[j].ID, "|")
                 => /\ j <= Len(want)
                    /\ ParseEpisodeID(got[j].ID) =
                          [episodeID |-> want[j].ID, mediaID |-> BrowsedInfo.ID]
                    /\ ~Contains(want[j].ID, "|")
                    /\ ~Contains(BrowsedInfo.ID, "|")
                    /\ ServersEndpoint(ParseEpisodeID(got[j].ID).episodeID,
                                       ParseEpisodeID(got[j].ID).mediaID).id = want[j].ID

C15_Witness ==
    /\ SeasonsDone
    /\ seasonsRet.arg = <<"a">>
    /\ <<"a", "|", "2">> \in DOMAIN episodesRet
    /\ Len(episodesRet[<<"a", "|", "2">>].val) = 1
    /\ episodesRet[<<"a", "|", "2">>].val[1].ID = <<"e21", "|", "tv", "/", "a">>
    /\ ParseEpisodeID(episodesRet[<<"a", "|", "2">>].val[1].ID) =
          [episodeID |-> <<"e21">>, mediaID |-> <<"tv", "/", "a">>]

\* C16: for a media id whose info GetInfo typed as a movie, GetSeasons returns
\* exactly one season, with Number 1, and GetEpisodes on its id returns exactly
\* one Episode, with Number 1 and Season 1, with or without a data-id on the
\* movie page.
C16_MovieOneEpisode ==
    (SeasonsDone /\ BrowsedInfo.Type = "movie")
    => LET seasons == seasonsRet.ret.val
       IN  /\ Len(seasons) = 1
           /\ seasons[1].Number = 1
           /\ seasons[1].ID \in DOMAIN episodesRet
              => LET got == episodesRet[seasons[1].ID]
                 IN  /\ got.err = NoErr
                     /\ Len(got.val) = 1
                     /\ got.val[1].Number = 1
                     /\ got.val[1].Season = 1

\* a movie whose page has no data-id: its info has no episode, and the one
\* Episode is the title itself
C16_Witness ==
    /\ SeasonsDone
    /\ BrowsedInfo.Type = "movie"
    /\ Len(BrowsedInfo.Episodes) = 0
    /\ seasonsRet.ret.val[1].ID \in DOMAIN episodesRet
    /\ Len(episodesRet[seasonsRet.ret.val[1].ID].val) = 1
    /\ episodesRet[seasonsRet.ret.val[1].ID].val[1].ID = BrowsedInfo.ID

----------------------------------------------------------------------------
(* Transport errors *)

\* C17: transport errors are propagated: a call during which an upstream
\* request failed at the network level, or was answered with a non-2xx
\* status, returns an error and never a successful result.
C17_TransportErrorsPropagated ==
    \A i \in 1..Len(history) : history[i].failed => history[i].ret.err # NoErr

----------------------------------------------------------------------------
(* Plugin files that fail to load *)

\* settings under which register stores a provider
Eligible(settings) ==
    settings.Enabled /\ (settings.Mode # "remote" \/ settings.RemoteURL # <<>>)

\* positions of the scripts of the last Load's directory that fail to load
BadFiles ==
    IF loadStatus = "none" \/ lastDir.err THEN {}
    ELSE {i \in 1..Len(lastDir.files) : lastDir.files[i] = "bad"}

\* C18: after a Load whose plugin directory holds a script that fails to load,
\* Load has completed, no provider of the set is the adapter of that script,
\* and every other enabled provider is registered: each built-in whose
\* settings make it eligible, and each script that loads, if plugins are
\* enabled.
C18_FailingPluginAbsent ==
    BadFiles # {}
    => /\ loadStatus = "completed"
       /\ \A n \in List(registry) :
             ~(registry[n].kind = "plugin" /\ registry[n].file \in BadFiles)
       /\ \A k \in 1..Len(BuiltIns) :
             Eligible(lastCfg[BuiltIns[k].key]) => BuiltIns[k].name \in List(registry)
       /\ \A i \in 1..Len(lastDir.files) :
             (lastDir.files[i] = "ok" /\ Eligible(lastCfg.Lua))
             => Get(registry, "example").err = NoErr

----------------------------------------------------------------------------
(* The lock of the plugin execution context *)

\* the goroutines executing inside the plugin context of adapter a
InsideContext(a) ==
    {g \in PluginCallers : plugCalls[g].adapter = a
                           /\ plugCalls[g].pc \in {"inside", "exiting"}}

\* C19: at most one call executes inside the plugin execution context of an
\* adapter at any time, and it is the holder of that adapter's lock; calls on
\* different adapters are not serialized against each other: a caller waiting
\* for an adapter in whose context nobody executes can enter, whoever
\* executes in the other adapters.
C19_OneCallInside ==
    /\ \A a \in Adapters : Cardinality(InsideContext(a)) <= 1
    /\ \A a \in Adapters : \A g \in InsideContext(a) : lock[a] = g
    /\ \A g \in PluginCallers :
          (plugCalls[g].pc = "waiting" /\ InsideContext(plugCalls[g].adapter) = {})
          => ENABLED AcquireLock(g)

\* g1 executes inside A1 while g2 waits for A1 and g3 executes inside A2
C19_Witness ==
    /\ plugCalls["g1"].pc = "inside"
    /\ plugCalls["g1"].adapter = "A1"
    /\ plugCalls["g2"].pc = "waiting"
    /\ plugCalls["g2"].adapter = "A1"
    /\ plugCalls["g3"].pc = "inside"
    /\ plugCalls["g3"].adapter = "A2"

\* C20: a call that has returned holds no lock, on success and on every error
\* path (function not found, plugin runtime error, unmarshal failure): when no
\* call is in progress every lock is free; and every caller waiting for a lock
\* eventually acquires it.
C20_LockReleased ==
    /\ [](\A g \in PluginCallers :
             plugCalls[g].pc \in {"idle", "waiting", "returned"}
             => \A a \in Adapters : lock[a] # g)
    /\ []((\A g \in PluginCallers : plugCalls[g].pc \in {"idle", "returned"})
          => \A a \in Adapters : lock[a] = "free")
    /\ \A g \in PluginCallers :
          (plugCalls[g].pc = "waiting") ~> (plugCalls[g].pc = "inside")

\* g1's Search on A1 has returned "function not found", and g2, which called
\* A1 meanwhile, holds A1's lock
C20_Witness ==
    /\ plugCalls["g1"].pc = "returned"
    /\ plugCalls["g1"].adapter = "A1"
    /\ plugCalls["g1"].method = "Search"
    /\ plugCalls["g1"].ret.err # NoErr
    /\ plugCalls["g1"].ret.err.cause = "search"
    /\ lock["A1"] = "g2"
    /\ plugCalls["g2"].pc = "inside"

----------------------------------------------------------------------------
(* A plugin function the script does not define *)

\* the calls of `method` on adapter a whose pair has been computed
Computed(a, method) ==
    {g \in PluginCallers : /\ plugCalls[g].adapter = a
                           /\ plugCalls[g].method = method
                           /\ plugCalls[g].pc \in {"exiting", "returned"}}

\* C21: a call to a method whose plugin function the script does not define
\* fails with a function-not-found error naming that function (Search on the
\* script defining only get_name: "function not found", "search") and returns
\* no value, and the failure stays in that call: whatever calls have failed
\* before, the interpreter holds the script as it was loaded, a Name call whose
\* get_name returned gives the script's name ("Test"), and a call to a defined
\* function that returned a well-formed value gives no error.
C21_FunctionNotFound ==
    /\ luaState = Scripts
    /\ \A a \in Adapters, method \in PluginMethods : \A g \in Computed(a, method) :
          LET res == plugCalls[g].ret
              fn == FunctionName(method)
          IN  /\ fn \notin Scripts[a].defines /\ method # "Name"
                 => /\ res.err # NoErr
                    /\ res.err.msgs = <<"function not found">>
                    /\ res.err.cause = fn
                    /\ res.val = ""
              /\ fn \in Scripts[a].defines /\ plugCalls[g].outcome = "ok"
                 => /\ res.err = NoErr
                    /\ method = "Name" => res.val = Scripts[a].name
    /\ \A g \in Computed("A1", "Search") :
          plugCalls[g].ret.err.cause = "search"
    /\ \A g \in Computed("A1", "Name") :
          plugCalls[g].outcome = "ok" => plugCalls[g].ret.val = "Test"

\* g1's Name on A1 returned "Test", then g2's Search on A1 failed with
\* function not found and returned, and g3, which acquired A1's lock after
\* that, has "Test" from Name again
C21_Witness ==
    /\ plugCalls["g1"].pc = "returned"
    /\ plugCalls["g1"].adapter = "A1"
    /\ plugCalls["g1"].method = "Name"
    /\ plugCalls["g1"].ret.val = "Test"
    /\ plugCalls["g2"].pc = "returned"
    /\ plugCalls["g2"].adapter = "A1"
    /\ plugCalls["g2"].method = "Search"
    /\ plugCalls["g2"].ret.err # NoErr
    /\ plugCalls["g2"].ret.err.msgs = <<"function not found">>
    /\ plugCalls["g2"].ret.err.cause = "search"
    /\ plugCalls["g3"].pc = "exiting"
    /\ plugCalls["g3"].adapter = "A1"
    /\ plugCalls["g3"].method = "Name"
    /\ plugCalls["g3"].ret.val = "Test"
    /\ lock["A1"] = "g3"

----------------------------------------------------------------------------
(* Iteration over a match set *)

\* the nodes of the document of the running each() that its selector matches
MatchingNodes == {p \in 1..Len(eachRun.doc) : eachRun.doc[p] = eachRun.sel}

\* C22: each(callback) invokes the callback once per matched node, in
\* document order, with the indices 1, 2, ..., n for a match set of n nodes:
\* at every moment of the iteration the k-th invocation carried index k and
\* the k-th matched node of the document, the nodes passed are strictly
\* ascending, never more invocations than matched nodes; when each returns
\* every matched node has been passed exactly once, whether or not callbacks
\* raised, and an empty match set has had no invocation.
C22_EachOneBased ==
    eachRun.pc \in {"iterating", "done"} =>
        LET inv == eachRun.invoked
            n == Cardinality(MatchingNodes)
        IN  /\ Len(inv) <= n
            /\ \A k \in 1..Len(inv) :
                  /\ inv[k].index = k
                  /\ inv[k].index # 0
                  /\ inv[k].node \in MatchingNodes
                  /\ Cardinality({p \in MatchingNodes : p < inv[k].node}) = k - 1
            /\ \A k, l \in 1..Len(inv) : k < l => inv[k].node < inv[l].node
            /\ eachRun.pc = "done"
               => /\ Len(inv) = n
                  /\ {inv[k].node : k \in 1..Len(inv)} = MatchingNodes
                  /\ [k \in 1..Len(inv) |-> inv[k].index] = [k \in 1..n |-> k]
            /\ n = 0 => inv = <<>>

\* each has returned on a 3-node match set inside a 4-node document, after
\* callbacks with the indices 1, 2, 3, the second of which raised
C22_Witness ==
    /\ eachRun.pc = "done"
    /\ Len(eachRun.doc) = 4
    /\ Len(eachRun.matched) = 3
    /\ eachRun.doc[2] # eachRun.sel
    /\ [k \in 1..3 |-> eachRun.invoked[k].index] = <<1, 2, 3>>
    /\ [k \in 1..3 |-> eachRun.invoked[k].node] = <<1, 3, 4>>
    /\ eachRun.invoked[2].raised

----------------------------------------------------------------------------
(* Order of the attempts within one pipeline invocation *)

\* C23: within one pipeline invocation the servers are attempted in the order
\* server discovery returned them, each at most once: the k-th embed request
\* is for the k-th server discovered, no server is requested twice, every
\* attempt has finished before the next request is issued (as many outcomes as
\* attempts), the loop stands on the server after the last one attempted, and
\* every attempt that was followed by another one ended with an error or with
\* zero sources.
C23_InOrderOnce ==
    (pc \in {"loop", "done"} /\ discErr = NoErr /\ Len(servers) > 0) =>
        /\ Len(Attempted) <= Len(servers)
        /\ Len(outcomes) = Len(Attempted)
        /\ \A k \in 1..Len(Attempted) : Attempted[k] = servers[k].URL
        /\ \A k, l \in 1..Len(Attempted) : k # l => Attempted[k] # Attempted[l]
        /\ \A k \in 1..(Len(outcomes) - 1) :
              Failed(outcomes[k]) \/ CleanEmpty(outcomes[k])
        /\ pc = "loop" =>
              /\ idx = Len(outcomes) + 1
              /\ \A k \in 1..Len(outcomes) :
                    Failed(outcomes[k]) \/ CleanEmpty(outcomes[k])
        /\ pc = "done" => Len(outcomes) = idx

\* three servers were discovered; the first failed, the second gave zero
\* sources, the third was attempted after them and gave sources
C23_Witness ==
    /\ pc = "done"
    /\ Len(servers) = 3
    /\ Attempted = <<servers[1].URL, servers[2].URL, servers[3].URL>>
    /\ Failed(outcomes[1])
    /\ CleanEmpty(outcomes[2])
    /\ Yields(outcomes[3])

----------------------------------------------------------------------------
(* The endpoint of server discovery for the episodes GetEpisodes emits *)

\* C24: for every episode id emitted by GetEpisodes, server discovery uses
\* the movie server-list endpoint exactly when the media type GetInfo recorded
\* for the episode's media is "movie", and the TV endpoint exactly when it is
\* "tv".
C24_EndpointMatchesType ==
    \A sid \in DOMAIN episodesRet :
        episodesRet[sid].err = NoErr =>
            LET emitted == episodesRet[sid].val
                media == infoCache[ParseSeasonID(sid).mediaID]
            IN  \A j \in 1..Len(emitted) :
                    LET p == ParseEpisodeID(emitted[j].ID)
                        endpoint == ServersEndpoint(p.episodeID, p.mediaID)
                    IN  (endpoint.path = "/ajax/episode/list") <=> (media.Type = "movie")

----------------------------------------------------------------------------
(* What GetStreamURL hands back of the pipeline's result *)

\* C25: GetStreamURL returns a StreamURL only out of the pipeline's result.
\* When the pipeline returned an error, GetStreamURL returns that error and no
\* StreamURL; when it returned an empty VideoSources and no error, GetStreamURL
\* returns the error "no sources found" and no StreamURL; and whenever a
\* StreamURL is returned, its URL, quality and referer are those of one Source
\* of the pipeline's result, its type is HLS exactly when that source is
\* flagged as segmented, and its subtitles are the pipeline's, in the same
\* order.
C25_OnlyFromPipeline ==
    (pc = "done" /\ op = "GetStreamURL") =>
        /\ (ret.val = Nil) <=> (ret.err # NoErr)
        /\ pipeRet.err # NoErr => ret.val = Nil /\ ret.err = pipeRet.err
        /\ (pipeRet.err = NoErr /\ Len(pipeRet.val.Sources) = 0)
           => /\ ret.val = Nil
              /\ ret.err = Root(0, "no sources found")
        /\ ret.val # Nil
           => /\ pipeRet.err = NoErr
              /\ \E i \in 1..Len(pipeRet.val.Sources) :
                    LET src == pipeRet.val.Sources[i]
                    IN  /\ ret.val.URL = src.URL
                        /\ ret.val.Quality = src.Quality
                        /\ ret.val.Referer = src.Referer
                        /\ ret.val.Headers = [Referer |-> src.Referer]
                        /\ (ret.val.Type = "hls") <=> src.IsM3U8
                        /\ (ret.val.Type = "mp4") <=> ~src.IsM3U8
              /\ Len(ret.val.Subtitles) = Len(pipeRet.val.Subtitles)
              /\ \A k \in 1..Len(ret.val.Subtitles) :
                    /\ ret.val.Subtitles[k].URL = pipeRet.val.Subtitles[k].URL
                    /\ ret.val.Subtitles[k].Language = pipeRet.val.Subtitles[k].Lang

\* the second server's second source, which is not segmented, was selected,
\* and the two subtitles of that server came along in their order
C25_Witness ==
    /\ pc = "done"
    /\ op = "GetStreamURL"
    /\ Len(outcomes) = 2
    /\ CleanEmpty(outcomes[1])
    /\ pipeRet.err = NoErr
    /\ Len(pipeRet.val.Sources) = 2
    /\ ~pipeRet.val.Sources[2].IsM3U8
    /\ ret.val.URL = pipeRet.val.Sources[2].URL
    /\ ret.val.Type = "mp4"
    /\ Len(ret.val.Subtitles) = 2
    /\ ret.val.Subtitles[1].Language = "en"
    /\ ret.val.Subtitles[2].Language = "fr"

----------------------------------------------------------------------------
(* Calls that return an error and the caches *)

\* calls i < j of the history have the same method and the same argument
SameCalls(i, j) ==
    /\ i < j
    /\ history[i].method = history[j].method
    /\ history[i].arg = history[j].arg

\* the cache the method of call i reads
CacheRead(i) == IF history[i].method = "Search" THEN searchCache ELSE infoCache

\* C26: a Search or GetInfo call that returns an error leaves both caches as
\* they were (the step that appends a failed call to the history changes
\* neither cache); a key whose calls have all failed so far has no cache
\* entry; and the next call with that key issues an upstream request of its
\* own.
C26_ErrorLeavesCaches ==
    /\ [][(Len(history') = Len(history) + 1
           /\ history'[Len(history')].ret.err # NoErr)
          => (searchCache' = searchCache /\ infoCache' = infoCache)]_vars
    /\ [](\A i \in 1..Len(history) :
             (history[i].ret.err # NoErr /\ FreshKey(i)
              /\ \A j \in 1..Len(history) : SameCalls(i, j) => history[j].ret.err # NoErr)
             => history[i].arg \notin DOMAIN CacheRead(i))
    /\ [](\A i \in 1..Len(history), j \in 1..Len(history) :
             (SameCalls(i, j) /\ history[i].ret.err # NoErr /\ FreshKey(j))
             => Len(history[j].reqs) >= 1)

\* a Search failed, and the same Search called again sent its own request and
\* returned results, which are now cached
C26_Witness ==
    /\ Len(history) = 2
    /\ SameSearchCalls(1, 2)
    /\ history[1].ret.err # NoErr
    /\ history[2].ret.err = NoErr
    /\ Len(history[2].reqs) = 1
    /\ Len(history[2].ret.val) > 0
    /\ history[2].arg \in DOMAIN searchCache

----------------------------------------------------------------------------
(* The seasons GetSeasons lists *)

\* the season numbers occurring among the episodes of the browsed info, season
\* 0 read as season 1
SeasonNumbers ==
    {SeasonRead(BrowsedInfo.Episodes[i]) : i \in 1..Len(BrowsedInfo.Episodes)}

\* C27: for a media whose info has at least one episode, GetSeasons returns
\* exactly one Season per distinct season number occurring among the episodes
\* (season 0 counted as season 1), in strictly ascending order of Number and
\* without duplicates, whatever the order of the episodes in the info.
C27_SeasonsSortedDistinct ==
    (SeasonsDone /\ Len(BrowsedInfo.Episodes) >= 1)
    => LET seasons == seasonsRet.ret.val
       IN  /\ {seasons[k].Number : k \in 1..Len(seasons)} = SeasonNumbers
           /\ Len(seasons) = Cardinality(SeasonNumbers)
           /\ \A k \in 1..(Len(seasons) - 1) : seasons[k].Number < seasons[k + 1].Number
           /\ \A k, l \in 1..Len(seasons) :
                 seasons[k].Number = seasons[l].Number => k = l
           /\ 0 \notin {seasons[k].Number : k \in 1..Len(seasons)}

\* the info lists the episodes of season 12, then of season 2, then of
\* season 1, and GetSeasons returned the seasons 1, 2, 12
C27_Witness ==
    /\ SeasonsDone
    /\ episodesRet = EmptyMap
    /\ Len(BrowsedInfo.Episodes) = 4
    /\ [i \in 1..4 |-> BrowsedInfo.Episodes[i].Season] = <<12, 2, 2, 1>>
    /\ [k \in 1..Len(seasonsRet.ret.val) |-> seasonsRet.ret.val[k].Number] = <<1, 2, 12>>

----------------------------------------------------------------------------
(* The registry after one Load *)

\* names a caller may ask the registry for
AskedNames ==
    {BuiltIns[k].name : k \in 1..Len(BuiltIns)} \cup {"example", "Unknown", "nosuch"}

\* the names the scripts of a directory report, if plugins are registered at all
ReportedNames(cfg, dir) ==
    IF dir.err \/ ~Eligible(cfg.Lua) THEN {}
    ELSE {NewLuaProvider(dir.files[i], "broken").name :
             i \in {j \in 1..Len(dir.files) : dir.files[j] \notin {"dir", "txt"}}}

\* Get succeeds exactly for the names List returns, with the provider stored,
\* and fails with provider-not-found, naming the name asked, for the others
GetAgreesWithList(providers) ==
    \A n \in AskedNames :
        /\ (Get(providers, n).err = NoErr) <=> (n \in List(providers))
        /\ n \in List(providers) => Get(providers, n).val = providers[n]
        /\ n \notin List(providers)
           => /\ Get(providers, n).val = Nil
              /\ Get(providers, n).err.msgs = <<"provider not found">>
              /\ Get(providers, n).err.cause = n

----------------------------------------------------------------------------
(* Repeated Load on one Registry *)

\* C29: Load only adds or replaces registry entries and never removes one:
\* every name List returned before a Load is returned by List and found by Get
\* after it, whatever the later configuration; and the entry of a built-in
\* whose provider the later configuration disables, and whose name no script
\* reports, is the very provider the earlier Load registered.
C29_LoadNeverRemoves ==
    [][/\ List(registry) \subseteq List(registry')
       /\ \A n \in List(registry) : Get(registry', n).err = NoErr
       /\ \A k \in 1..Len(BuiltIns) :
             LET b == BuiltIns[k]
             IN  (/\ b.name \in List(registry)
                  /\ ~lastCfg'[b.key].Enabled
                  /\ b.name \notin ReportedNames(lastCfg', lastDir'))
                 => Get(registry', b.name).val = registry[b.name]]_vars

\* the last Load was given a configuration that disables every provider and
\* the plugins, and sflix, which an earlier Load registered as a remote
\* client, is still returned by Get and List
C29_Witness ==
    /\ loadStatus = "completed"
    /\ \A k \in 1..Len(BuiltIns) : ~lastCfg[BuiltIns[k].key].Enabled
    /\ ~lastCfg.Lua.Enabled
    /\ "sflix" \in List(registry)
    /\ Get(registry, "sflix").err = NoErr
    /\ Get(registry, "sflix").val.kind = "remote"
    /\ "example" \in List(registry)

----------------------------------------------------------------------------
(* Plugins that report a name already registered *)

\* positions of the scripts in a directory listing
ScriptsOf(dir) ==
    IF dir.err THEN {}
    ELSE {i \in 1..Len(dir.files) : dir.files[i] \notin {"dir", "txt"}}

\* the name the script at position i reports
NameOf(dir, i) == NewLuaProvider(dir.files[i], "broken").name

\* the last script of the listing that reports the name of script i
LastNamed(dir, i) ==
    CHOOSE j \in ScriptsOf(dir) :
        /\ NameOf(dir, j) = NameOf(dir, i)
        /\ \A l \in ScriptsOf(dir) : NameOf(dir, l) = NameOf(dir, i) => l <= j

\* script i reports a name that is registered when it is scanned: by an
\* earlier Load, by a built-in of this Load, or by an earlier script
Clashes(before, cfg, dir, i) ==
    \/ NameOf(dir, i) \in List(before)
    \/ \E k \in 1..Len(BuiltIns) :
          BuiltIns[k].name = NameOf(dir, i) /\ Eligible(cfg[BuiltIns[k].key])
    \/ \E j \in ScriptsOf(dir) : j < i /\ NameOf(dir, j) = NameOf(dir, i)

\* C30 as stated: within one Load in which plugins are registered, a plugin
\* whose Name() equals an already registered name replaces the earlier
\* registration: afterwards Get(name) returns the later-scanned plugin.
C30_Stated ==
    [][(loadStatus' = "completed" /\ Eligible(lastCfg'.Lua))
       => \A i \in ScriptsOf(lastDir') :
             Clashes(registry, lastCfg', lastDir', i)
             => Get(registry', NameOf(lastDir', i)).val
                   = PluginProvider(NameOf(lastDir', i), LastNamed(lastDir', i))]_vars

\* C30, amended: registry entries are keyed only by the reported provider
\* name, so within one Load in which plugins are enabled in local mode a
\* plugin whose Name() equals an already registered name (a built-in such as
\* sflix, or an earlier plugin, as with two plugins reporting "Unknown")
\* replaces the earlier registration: afterwards Get(name) returns the adapter
\* of the last-scanned plugin of that name, and no name of the registry leads
\* to the built-in's provider or to the adapter of an earlier plugin of that
\* name.  With plugins in remote mode and a remote URL set, the earlier
\* registration is replaced by a remote client under the plugin's name
\* instead of the plugin's adapter.
C30_LaterPluginReplaces ==
    [][(loadStatus' = "completed" /\ Eligible(lastCfg'.Lua))
       => \A i \in ScriptsOf(lastDir') :
             Clashes(registry, lastCfg', lastDir', i)
             => LET name == NameOf(lastDir', i)
                    got == Get(registry', name)
                IN  /\ got.err = NoErr
                    /\ \A n \in List(registry') :
                          registry'[n].impl = name => registry'[n] = got.val
                    /\ IF lastCfg'.Lua.Mode # "remote"
                       THEN got.val = PluginProvider(name, LastNamed(lastDir', i))
                       ELSE /\ got.val.kind = "remote"
                            /\ got.val.impl = name
                            /\ HasPrefix(got.val.url,
                                         TrimRightSlash(lastCfg'.Lua.RemoteURL))]_vars

\* sflix is enabled as a native adapter, plugins are enabled, and the first
\* script of the directory reports the name sflix: Get("sflix") returns that
\* script's adapter
C30_Witness ==
    /\ loadStatus = "completed"
    /\ lastCfg.SFlix = [Enabled |-> TRUE, Mode |-> "local", RemoteURL |-> <<>>]
    /\ lastCfg.Lua = [Enabled |-> TRUE, Mode |-> "local", RemoteURL |-> <<>>]
    /\ lastDir = [err |-> FALSE, files |-> <<"clash", "ok">>]
    /\ Get(registry, "sflix").val = PluginProvider("sflix", 1)
    /\ Get(registry, "example").val = PluginProvider("example", 2)
    /\ \A n \in List(registry) : registry[n] # LocalProvider("sflix")

====
